---- MODULE Spec2Model ----
(***************************************************************************)
(* Inner Realm: the tile-progression and world-unlock engine.              *)
(*                                                                         *)
(* The model holds the persisted rows (tiles, player, sessions), the game  *)
(* store's in-memory copy of them, and one action per store operation:     *)
(* init (initDb, seed, layout sync, load, gate repair, bootstrap, target   *)
(* validation), addSession, spendResourceOnTile and setTargetTile.  An app *)
(* update that ships another map layout is the environment's step.  The    *)
(* timer store (start, stop, resume, discard, commit, refresh) has its own *)
(* table and hands committed sessions to the game store's addSession.      *)
(***************************************************************************)
EXTENDS Integers, Sequences, FiniteSets, TLC

VARIABLES
    layoutVer,     \* which INNER_REALM_LAYOUT the installed build ships
    dbTiles,       \* table tiles, in rowid (insertion) order
    dbPlayer,      \* table player: <<>> or <<the row with id 1>>
    dbSessions,    \* table sessions, newest first
    isReady,       \* game store: isReady
    xp,            \* game store: xp
    pools,         \* game store: craft, lore, vigor, clarity, gold
    tiles,         \* game store: tiles
    sessions,      \* game store: sessions
    targetTileId,  \* game store: targetTileId
    result,        \* what the last store call returned and the SQL it issued
    dbTimers,      \* table timer_sessions, in insertion order
    timerReady,    \* timer store: isReady
    activeSession, \* timer store: activeSession, <<>> or <<the session>>
    now,           \* Date.now(), in milliseconds since the model's start
    nextTimerId,   \* the id the next inserted timer session gets
    pend,          \* store calls waiting on an await, oldest first
    handoffs,      \* every game.addSession call commitSession has made
    txn            \* the connection's open transaction: <<>> or <<the tables at BEGIN>>

gameVars == <<layoutVer, dbTiles, dbPlayer, dbSessions, isReady, xp, pools, tiles,
              sessions, targetTileId, result, txn>>

timerVars == <<dbTimers, timerReady, activeSession, now, nextTimerId, pend, handoffs>>

vars == <<layoutVer, dbTiles, dbPlayer, dbSessions, isReady, xp, pools, tiles,
          sessions, targetTileId, result, dbTimers, timerReady, activeSession, now,
          nextTimerId, pend, handoffs, txn>>

\* the timer store and its table before the first call
TimerInit ==
    /\ dbTimers = <<>>
    /\ timerReady = FALSE
    /\ activeSession = <<>>
    /\ now = 0
    /\ nextTimerId = 1
    /\ pend = <<>>
    /\ handoffs = <<>>

(***************************************************************************)
(* Bounds of the model.                                                    *)
(***************************************************************************)
MaxSessions == 1

\* minutes a logged session may carry
SessionMinutes == {360}

\* minutes a spend may carry
SpendMinutes == {60, 300}

(***************************************************************************)
(* lib/world/progression.ts                                                *)
(***************************************************************************)
MAX_LEVEL == 3
BASE_MIN == 60

Max(a, b) == IF a >= b THEN a ELSE b
Min(a, b) == IF a <= b THEN a ELSE b

\* Math.round of n / 100 for n >= 0
RoundDiv100(n) == (n + 50) \div 100

(***************************************************************************)
(* lib/world/regions.ts                                                    *)
(***************************************************************************)
RegionTypes ==
    {"mountains_doubt", "river_despair", "wastelands_ash_dust", "forest_decay",
     "great_depths", "planes_fire_ice", "crystal_citadel", "shadows_broken_sky",
     "floating_might_have_been", "void_heart"}

\* the difficulty multiplier, in hundredths
regionDifficultyMult(region) ==
    CASE region = "mountains_doubt" -> 100
      [] region = "river_despair" -> 110
      [] region = "wastelands_ash_dust" -> 105
      [] region = "forest_decay" -> 115
      [] region = "great_depths" -> 125
      [] region = "planes_fire_ice" -> 120
      [] region = "crystal_citadel" -> 95
      [] region = "shadows_broken_sky" -> 130
      [] region = "floating_might_have_been" -> 135
      [] region = "void_heart" -> 160
      [] OTHER -> 100

regionGroups(region) ==
    CASE region \in {"mountains_doubt", "wastelands_ash_dust", "forest_decay",
                     "planes_fire_ice"} -> "wastelands"
      [] region = "river_despair" -> "river"
      [] region \in {"crystal_citadel", "shadows_broken_sky",
                     "floating_might_have_been"} -> "citadel"
      [] region = "great_depths" -> "depths"
      [] region = "void_heart" -> "void"
      [] OTHER -> "unknown"

isRegionLockedByDefault(region) ==
    regionGroups(region) = "depths" \/ regionGroups(region) = "void"

AllCore == {"work", "study", "sport", "mindfulness", "meditation"}

allowedActivitiesForRegion(region) ==
    CASE region = "mountains_doubt" -> AllCore
      [] region \in {"wastelands_ash_dust", "forest_decay", "planes_fire_ice"} -> {"sport"}
      [] region = "river_despair" -> {"mindfulness", "meditation"}
      [] region = "shadows_broken_sky" -> {"work"}
      [] region \in {"crystal_citadel", "floating_might_have_been"} -> {"study"}
      [] region = "great_depths" -> {"work", "sport"}
      [] region = "void_heart" -> AllCore
      [] OTHER -> AllCore

REGION_BY_CODE(ch) ==
    CASE ch = "1" -> "mountains_doubt"
      [] ch = "2" -> "river_despair"
      [] ch = "3" -> "wastelands_ash_dust"
      [] ch = "4" -> "forest_decay"
      [] ch = "5" -> "great_depths"
      [] ch = "6" -> "planes_fire_ice"
      [] ch = "7" -> "crystal_citadel"
      [] ch = "8" -> "shadows_broken_sky"
      [] ch = "9" -> "floating_might_have_been"

FEATURE_BY_CODE(ch) ==
    CASE ch = "G" -> "gate"
      [] ch = "V" -> "void"
      [] ch = "J" -> "jailor_citadel"
      [] ch = "B" -> "black_star"

(***************************************************************************)
(* lib/world/progression.ts                                                *)
(***************************************************************************)
segmentNeed(level, region) ==
    Max(1, RoundDiv100(BASE_MIN * (level + 1) * regionDifficultyMult(region)))

\* a faulty totalRequiredForLevel that adds the segment of the level itself
\* (C13 must tell it apart)
RECURSIVE totalRequiredForLevel_OffByOne(_, _)
totalRequiredForLevel_OffByOne(level, region) ==
    IF level <= 0 THEN 0
    ELSE totalRequiredForLevel_OffByOne(level - 1, region) + segmentNeed(level, region)

RECURSIVE totalRequiredForLevel(_, _)
totalRequiredForLevel(level, region) ==
    IF level <= 0 THEN 0
    ELSE totalRequiredForLevel(level - 1, region) + segmentNeed(level - 1, region)

\* a faulty loop without the MAX_LEVEL bound (C12 must tell it apart)
RECURSIVE LevelLoop_NoCap(_, _, _)
LevelLoop_NoCap(lvl, total, region) ==
    IF total >= totalRequiredForLevel(lvl + 1, region)
    THEN LevelLoop_NoCap(lvl + 1, total, region)
    ELSE lvl

RECURSIVE LevelLoop(_, _, _)
LevelLoop(lvl, total, region) ==
    IF lvl < MAX_LEVEL /\ total >= totalRequiredForLevel(lvl + 1, region)
    THEN LevelLoop(lvl + 1, total, region)
    ELSE lvl

computeLevelFromTotalMinutes(total, region) == LevelLoop(0, total, region)

\* a faulty applyMinutes that takes the level from the minutes added (C11 must
\* tell it apart)
applyMinutes_LevelFromAdded(tile, add) ==
    LET total == Max(0, tile.progress + add)
        lvl == computeLevelFromTotalMinutes(add, tile.region)
    IN [tile EXCEPT !.progress = total, !.level = lvl]

applyMinutes(tile, add) ==
    LET total == Max(0, tile.progress + add)
        lvl == computeLevelFromTotalMinutes(total, tile.region)
    IN [tile EXCEPT !.progress = total, !.level = lvl]

\* the ratio as <<numerator, denominator>>: within / need clamped to [0, 1]
tileProgressRatio(t) ==
    LET level == Max(0, Min(MAX_LEVEL, t.level))
        start == totalRequiredForLevel(level, t.region)
        need == segmentNeed(level, t.region)
        within == Max(0, t.progress - start)
    IN IF level >= MAX_LEVEL THEN <<1, 1>>
       ELSE <<Min(within, Max(1, need)), Max(1, need)>>

(***************************************************************************)
(* lib/world/unlockRules.ts                                                *)
(***************************************************************************)
NullId == <<>>

\* the tiles of a list, as a set
TileSet(ts) == {ts[i] : i \in 1..Len(ts)}

\* index.byId.get(id): the last tile of the list with that id, or none
ById(ts, id) ==
    LET hits == {i \in 1..Len(ts) : ts[i].id = id}
    IN IF hits = {} THEN <<>> ELSE <<ts[CHOOSE i \in hits : \A j \in hits : j <= i]>>

\* index.byPos.get(posKey(row, col))
ByPos(ts, row, col) ==
    LET hits == {i \in 1..Len(ts) : ts[i].row = row /\ ts[i].col = col}
    IN IF hits = {} THEN <<>> ELSE <<ts[CHOOSE i \in hits : \A j \in hits : j <= i]>>

\* a faulty N8 without the diagonals (C10 must tell it apart)
N8_NoDiagonals == <<<<-1, 0>>, <<0, -1>>, <<0, 1>>, <<1, 0>>>>

N8 == <<<<-1, -1>>, <<-1, 0>>, <<-1, 1>>, <<0, -1>>, <<0, 1>>, <<1, -1>>, <<1, 0>>, <<1, 1>>>>

neighbors8(row, col) == [k \in 1..Len(N8) |-> <<row + N8[k][1], col + N8[k][2]>>]

\* a faulty isHardLocked that looks at the feature only (C3 must tell it apart)
isHardLocked_FeatureOnly(tile) == tile.feature = "void"

isHardLocked(tile) ==
    tile.locked = 1 \/ tile.feature = "void" \/ tile.region = "void_heart"

isConquered(tile) == tile.level >= 1 /\ ~isHardLocked(tile)

\* a faulty touchesConquered that is content with a conquered tile anywhere on
\* the map (C38 must tell it apart)
touchesConquered_Anywhere(tile, ts) ==
    \E k \in 1..Len(ts) : ts[k].id # tile.id /\ isConquered(ts[k])

touchesConquered(tile, ts) ==
    \E k \in 1..Len(N8) :
        LET p == neighbors8(tile.row, tile.col)[k]
            nb == ByPos(ts, p[1], p[2])
        IN nb # <<>> /\ isConquered(nb[1])

isFrontier(tile, ts) ==
    tile.level = 0 /\ ~isHardLocked(tile) /\ touchesConquered(tile, ts)

\* a faulty canInvest that forgets adjacency (C4 must tell it apart)
canInvest_NoAdjacency(tile, ts) == ~isHardLocked(tile)

canInvest(tile, ts) == isConquered(tile) \/ isFrontier(tile, ts)

computeInvestableIds(ts) == {t.id : t \in {u \in TileSet(ts) : canInvest(u, ts)}}

hasOpenedGate(ts) == \E t \in TileSet(ts) : t.feature = "gate" /\ t.level >= 1

\* a faulty explanation that calls every great_depths tile sealed (C34 must tell
\* it apart)
investabilityReason_DepthsAlwaysSealed(tile, ts) ==
    IF tile.feature = "void" \/ tile.region = "void_heart" THEN "void"
    ELSE IF tile.region = "great_depths" THEN "sealed_great_depths"
    ELSE IF tile.locked = 1 THEN "sealed"
    ELSE IF isConquered(tile) THEN "conquered"
    ELSE IF isFrontier(tile, ts) THEN "frontier"
    ELSE "not_reachable"

investabilityReason(tile, ts) ==
    IF isHardLocked(tile)
    THEN IF tile.feature = "void" \/ tile.region = "void_heart" THEN "void"
         ELSE IF tile.region = "great_depths" THEN "sealed_great_depths"
         ELSE "sealed"
    ELSE IF isConquered(tile) THEN "conquered"
    ELSE IF isFrontier(tile, ts) THEN "frontier"
    ELSE "not_reachable"

\* a faulty scan that keeps the last of the best tiles (C33 must tell it apart)
BestByScore_LastOnTies(pool, midR) ==
    LET score(t) == t.col * 2 + (IF t.row >= midR THEN t.row - midR ELSE midR - t.row)
        best == CHOOSE i \in 1..Len(pool) :
                    /\ \A j \in 1..Len(pool) : score(pool[i]) <= score(pool[j])
                    /\ \A j \in (i + 1)..Len(pool) : score(pool[j]) > score(pool[i])
    IN pool[best]

\* the first tile of the list that minimises col*2 + |row - midR|
BestByScore(pool, midR) ==
    LET score(t) == t.col * 2 + (IF t.row >= midR THEN t.row - midR ELSE midR - t.row)
        best == CHOOSE i \in 1..Len(pool) :
                    /\ \A j \in 1..Len(pool) : score(pool[i]) <= score(pool[j])
                    /\ \A j \in 1..(i - 1) : score(pool[j]) > score(pool[i])
    IN pool[best]

MaxRow(ts) == CHOOSE r \in {ts[i].row : i \in 1..Len(ts)} :
                  \A i \in 1..Len(ts) : ts[i].row <= r

pickStartAnchorId(ts) ==
    IF Len(ts) = 0 THEN NullId
    ELSE
      LET preferred == SelectSeq(ts, LAMBDA t : t.row = 3 /\ t.col = 3
                                     /\ t.region = "mountains_doubt" /\ ~isHardLocked(t))
          rows == MaxRow(ts) + 1
          midR == rows \div 2
          candidates == SelectSeq(ts, LAMBDA t : t.region = "mountains_doubt" /\ ~isHardLocked(t))
          pool == IF Len(candidates) > 0 THEN candidates
                  ELSE SelectSeq(ts, LAMBDA t : ~isHardLocked(t))
      IN IF Len(preferred) > 0 THEN preferred[1].id
         ELSE IF Len(pool) = 0 THEN NullId
         ELSE BestByScore(pool, midR).id

(***************************************************************************)
(* lib/world/innerRealmLayout.ts: the grid of single-character codes.  The *)
(* first build ships a 2x2 map, the update grows it by one column.         *)
(***************************************************************************)
Layouts ==
    << << <<"1", "G">>,
          <<"B", "5">> >>,
       << <<"1", "G", "3">>,
          <<"B", "5", "V">> >> >>

\* later builds repaint the map: one turns the 2x3 grid into a 3x2 grid whose
\* gate cell has become void, the next one shrinks the grid to 2x2 again
LaterLayouts ==
    << << <<"1", "V">>,
          <<"B", "5">>,
          <<"3", "V">> >>,
       << <<"1", "G">>,
          <<"B", "5">> >> >>

AllLayouts == Layouts \o LaterLayouts

INNER_REALM_LAYOUT == AllLayouts[layoutVer]

LayoutRows(layout) == Len(layout)
LayoutCols(layout) == IF Len(layout) = 0 THEN 0 ELSE Len(layout[1])

\* the cell the row-major loop visits k-th: <<r, c>>, both from 0
Cell(layout, k) == <<(k - 1) \div LayoutCols(layout), (k - 1) % LayoutCols(layout)>>

CodeAt(layout, k) == layout[Cell(layout, k)[1] + 1][Cell(layout, k)[2] + 1]

IsDigit(ch) == ch \in {"1", "2", "3", "4", "5", "6", "7", "8", "9"}

DecodeRegion(ch) ==
    IF IsDigit(ch) THEN REGION_BY_CODE(ch)
    ELSE IF ch = "V" \/ ch = "B" THEN "void_heart"
    ELSE IF ch = "J" THEN "wastelands_ash_dust"
    ELSE IF ch = "G" THEN "planes_fire_ice"
    ELSE "wastelands_ash_dust"

DecodeFeature(ch) ==
    IF ch \in {"G", "V", "J", "B"} THEN FEATURE_BY_CODE(ch) ELSE "none"

(***************************************************************************)
(* lib/world/seedInnerRealm.ts                                             *)
(***************************************************************************)
\* decodeLayoutChar of the seed: hardLocked
SeedHardLocked(ch) ==
    IF DecodeFeature(ch) = "void" \/ DecodeRegion(ch) = "void_heart"
       \/ DecodeRegion(ch) = "great_depths"
    THEN 1 ELSE 0

\* a faulty seed that seals every tile it writes (C31 must tell it apart)
SeedTile_AllSealed(layout, k) ==
    [id |-> Cell(layout, k), row |-> Cell(layout, k)[1], col |-> Cell(layout, k)[2],
     region |-> DecodeRegion(CodeAt(layout, k)), level |-> 0, progress |-> 0,
     feature |-> DecodeFeature(CodeAt(layout, k)),
     locked |-> 1]

SeedTile(layout, k) ==
    [id |-> Cell(layout, k), row |-> Cell(layout, k)[1], col |-> Cell(layout, k)[2],
     region |-> DecodeRegion(CodeAt(layout, k)), level |-> 0, progress |-> 0,
     feature |-> DecodeFeature(CodeAt(layout, k)),
     locked |-> SeedHardLocked(CodeAt(layout, k))]

pickSeedStartTileId(ts) ==
    IF Len(ts) = 0 THEN NullId
    ELSE
      LET midR == (MaxRow(ts) + 1) \div 2
          candidates == SelectSeq(ts, LAMBDA t : t.region = "mountains_doubt"
                                      /\ t.locked = 0 /\ t.feature # "void")
          pool == IF Len(candidates) > 0 THEN candidates
                  ELSE SelectSeq(ts, LAMBDA t : t.locked = 0 /\ t.feature # "void")
      IN IF Len(pool) = 0 THEN NullId ELSE BestByScore(pool, midR).id

\* the tiles table after seedInnerRealmIfEmpty
seedInnerRealmIfEmpty(rows, layout) ==
    IF Len(rows) > 0 THEN rows
    ELSE IF LayoutRows(layout) = 0 \/ LayoutCols(layout) = 0 THEN rows
    ELSE
      LET fresh == [k \in 1..(LayoutRows(layout) * LayoutCols(layout)) |-> SeedTile(layout, k)]
          preferred == SelectSeq(fresh, LAMBDA t : t.row = 3 /\ t.col = 3
                                     /\ t.region = "mountains_doubt"
                                     /\ t.locked = 0 /\ t.feature # "void")
          startId == IF Len(preferred) > 0 THEN preferred[1].id
                     ELSE pickSeedStartTileId(fresh)
      IN [k \in 1..Len(fresh) |->
            IF fresh[k].id = startId
            THEN [fresh[k] EXCEPT !.level = 1,
                                  !.progress = totalRequiredForLevel(1, fresh[k].region)]
            ELSE fresh[k]]

(***************************************************************************)
(* lib/world/syncInnerRealm.ts                                             *)
(***************************************************************************)
\* decodeLayoutChar of the sync: defaultLocked
SyncDefaultLocked(ch) == IF isRegionLockedByDefault(DecodeRegion(ch)) THEN 1 ELSE 0

\* never auto-unlock existing tiles
SyncNextLocked(existingLocked, defaultLocked) ==
    IF Max(existingLocked, defaultLocked) # 0 THEN 1 ELSE 0

LegacyRegions == {"wastelands", "river", "citadel"}

\* the early return: the table already matches the layout
SyncInSync(rows, layout) ==
    /\ Len(rows) = LayoutRows(layout) * LayoutCols(layout)
    /\ \A t \in TileSet(rows) : t.region \notin LegacyRegions
    /\ \A t \in TileSet(rows) : t.region \in RegionTypes

\* a faulty UPDATE that writes the tile anew (C28 must tell it apart)
SyncUpdateRow_ResetsProgress(t, layout) == [t EXCEPT !.level = 0, !.progress = 0]

\* the UPDATE of a tile the layout still holds
SyncUpdateRow(t, layout) ==
    LET hits == {k \in 1..(LayoutRows(layout) * LayoutCols(layout)) : Cell(layout, k) = t.id}
    IN IF hits = {} THEN t
       ELSE LET k == CHOOSE k \in hits : TRUE
                ch == CodeAt(layout, k)
            IN [t EXCEPT !.row = Cell(layout, k)[1], !.col = Cell(layout, k)[2],
                         !.region = DecodeRegion(ch), !.feature = DecodeFeature(ch),
                         !.locked = SyncNextLocked(t.locked, SyncDefaultLocked(ch))]

\* a faulty INSERT that writes a legacy region id (C29 must tell it apart)
SyncInsertRow_LegacyRegion(layout, k) ==
    [id |-> Cell(layout, k), row |-> Cell(layout, k)[1], col |-> Cell(layout, k)[2],
     region |-> "wastelands", level |-> 0, progress |-> 0,
     feature |-> DecodeFeature(CodeAt(layout, k)),
     locked |-> SyncDefaultLocked(CodeAt(layout, k))]

\* the INSERT of a grid cell that has no row yet
SyncInsertRow(layout, k) ==
    [id |-> Cell(layout, k), row |-> Cell(layout, k)[1], col |-> Cell(layout, k)[2],
     region |-> DecodeRegion(CodeAt(layout, k)), level |-> 0, progress |-> 0,
     feature |-> DecodeFeature(CodeAt(layout, k)),
     locked |-> SyncDefaultLocked(CodeAt(layout, k))]

\* the tiles table after syncInnerRealmToLayout
syncTiles(rows, layout) ==
    IF LayoutRows(layout) = 0 \/ LayoutCols(layout) = 0 THEN rows
    ELSE IF SyncInSync(rows, layout) THEN rows
    ELSE
      LET n == LayoutRows(layout) * LayoutCols(layout)
          updated == [i \in 1..Len(rows) |-> SyncUpdateRow(rows[i], layout)]
          missing == SelectSeq([k \in 1..n |-> k],
                               LAMBDA k : ById(rows, Cell(layout, k)) = <<>>)
          inserted == [j \in 1..Len(missing) |-> SyncInsertRow(layout, missing[j])]
      IN SelectSeq(updated \o inserted,
                   LAMBDA t : ~(t.row >= LayoutRows(layout) \/ t.col >= LayoutCols(layout)))

\* the player table after syncInnerRealmToLayout
syncPlayer(player, rows, layout) ==
    IF LayoutRows(layout) = 0 \/ LayoutCols(layout) = 0 THEN player
    ELSE IF SyncInSync(rows, layout) THEN player
    ELSE [i \in 1..Len(player) |->
            IF player[i].targetTileId # NullId
               /\ ById(syncTiles(rows, layout), player[i].targetTileId) = <<>>
            THEN [player[i] EXCEPT !.targetTileId = NullId]
            ELSE player[i]]

(***************************************************************************)
(* lib/db.ts                                                               *)
(***************************************************************************)
\* legacy repair: progress of a row that has a level and no progress
RepairProgress(t) ==
    IF t.progress = 0 /\ t.level > 0
    THEN [t EXCEPT !.progress = IF t.level <= 0 THEN 0
                                 ELSE IF t.level = 1 THEN 60
                                 ELSE IF t.level = 2 THEN 180
                                 ELSE 360]
    ELSE t

\* legacy repair: level of every row from its progress
RepairLevel(t) ==
    [t EXCEPT !.level = IF t.progress >= 360 THEN 3
                        ELSE IF t.progress >= 180 THEN 2
                        ELSE IF t.progress >= 60 THEN 1
                        ELSE 0]

RenameLegacyRegion(t) ==
    [t EXCEPT !.region = IF t.region = "wastelands" THEN "wastelands_ash_dust"
                         ELSE IF t.region = "river" THEN "river_despair"
                         ELSE IF t.region = "citadel" THEN "crystal_citadel"
                         ELSE t.region]

NewPlayerRow ==
    [xp |-> 0, craft |-> 0, lore |-> 0, vigor |-> 0, clarity |-> 0, gold |-> 0,
     targetTileId |-> NullId]

\* the tiles table initDb hands to the sync: repaired, and seeded if empty
TilesBeforeSync(rows, layout) ==
    seedInnerRealmIfEmpty([i \in 1..Len(rows) |->
                              RenameLegacyRegion(RepairLevel(RepairProgress(rows[i])))],
                          layout)

\* the player table initDb hands to the sync
PlayerBeforeSync(player) == IF Len(player) = 0 THEN <<NewPlayerRow>> ELSE player

\* the tables after initDb, as [tiles, player]
initDb(rows, player, layout) ==
    [tiles |-> syncTiles(TilesBeforeSync(rows, layout), layout),
     player |-> syncPlayer(PlayerBeforeSync(player), TilesBeforeSync(rows, layout), layout)]

(***************************************************************************)
(* lib/resourceModel.ts                                                    *)
(***************************************************************************)
ActivityTypes == {"work", "study", "sport", "mindfulness", "income", "habit", "meditation"}

ResourceKeys == {"craft", "lore", "vigor", "clarity", "gold"}

normalizeActivity(a) == IF a = "meditation" THEN "mindfulness" ELSE a

\* a faulty test that takes a habit for a core activity (C25 must tell it apart)
isCoreActivity_HabitToo(a) ==
    normalizeActivity(a) \in {"work", "study", "sport", "mindfulness", "habit"}

isCoreActivity(a) == normalizeActivity(a) \in {"work", "study", "sport", "mindfulness"}

NoDelta == [k \in ResourceKeys |-> 0]

\* a faulty mapping in which a habit earns clarity (C22 must tell it apart)
resourceGainsForSession_HabitEarns(activityRaw, minutes, amount) ==
    IF normalizeActivity(activityRaw) \in {"mindfulness", "habit"}
    THEN [NoDelta EXCEPT !.clarity = Max(0, minutes)]
    ELSE NoDelta

\* a faulty mapping that credits work twice over (C23 must tell it apart)
resourceGainsForSession_WorkDoubled(activityRaw, minutes, amount) ==
    IF normalizeActivity(activityRaw) = "work"
    THEN [NoDelta EXCEPT !.craft = 2 * Max(0, minutes)]
    ELSE NoDelta

\* amount is <<>> for null, <<n>> otherwise
resourceGainsForSession(activityRaw, minutes, amount) ==
    LET activity == normalizeActivity(activityRaw)
        m == Max(0, minutes)
        a == IF amount = <<>> THEN 0 ELSE amount[1]
    IN CASE activity = "work" -> [NoDelta EXCEPT !.craft = m]
         [] activity = "study" -> [NoDelta EXCEPT !.lore = m]
         [] activity = "sport" -> [NoDelta EXCEPT !.vigor = m]
         [] activity = "mindfulness" -> [NoDelta EXCEPT !.clarity = m]
         [] activity = "income" -> IF a > 0 THEN [NoDelta EXCEPT !.gold = a] ELSE NoDelta
         [] OTHER -> NoDelta

(***************************************************************************)
(* store/useGameStore.ts                                                   *)
(***************************************************************************)
SpendableResources == {"craft", "lore", "vigor", "clarity"}

ACTIVITY_FOR_RESOURCE(resource) ==
    CASE resource = "craft" -> "work"
      [] resource = "lore" -> "study"
      [] resource = "vigor" -> "sport"
      [] resource = "clarity" -> "mindfulness"

isActivityAllowedOnTile(activity, tile) ==
    LET a == normalizeActivity(activity)
        allowed == allowedActivitiesForRegion(tile.region)
    IN IF a = "mindfulness" /\ "meditation" \in allowed THEN TRUE ELSE a \in allowed

\* clampInt(n, min) on an integer
clampInt(n, min) == Max(min, n)

\* what a store call hands back, and the statements it sent to the database
Outcome(op, ok, reason, unlockedNow, threw, stmts) ==
    [op |-> op, ok |-> ok, reason |-> reason, unlockedNow |-> unlockedNow,
     threw |-> threw, stmts |-> stmts]

\* the statement of a call that the storage engine rejects, if any
FailPoints == {"none", "UPDATE player"}

\* the statements up to and including the rejected one
UpTo(stmts, fail) ==
    LET hits == {i \in 1..Len(stmts) : stmts[i] = fail}
    IN IF hits = {} THEN stmts ELSE SubSeq(stmts, 1, CHOOSE i \in hits : \A j \in hits : i <= j)

Rejected(stmts, fail) == \E i \in 1..Len(stmts) : stmts[i] = fail

\* a catch block that rethrows without rolling back (C24 must tell it apart)
Aborted_NoRollback(stmts, fail) == UpTo(stmts, fail)

\* the statements of a call whose statement `fail` is rejected: BEGIN is sent
\* before the try block, every later statement inside it, and the catch block
\* sends ROLLBACK before it rethrows
Aborted(stmts, fail) ==
    UpTo(stmts, fail) \o (IF fail = "BEGIN" THEN <<>> ELSE <<"ROLLBACK">>)

\* normalizeSessions(rows): the Session objects of the store, without the
\* tileId column
normalizeSessions(rows) ==
    [i \in 1..Len(rows) |->
        [activity |-> rows[i].activity, minutes |-> rows[i].minutes,
         amount |-> rows[i].amount]]

ZeroPools == [k \in ResourceKeys |-> 0]

Init ==
    /\ layoutVer = 1
    /\ dbTiles = <<>>
    /\ dbPlayer = <<>>
    /\ dbSessions = <<>>
    /\ isReady = FALSE
    /\ xp = 0
    /\ pools = ZeroPools
    /\ tiles = <<>>
    /\ sessions = <<>>
    /\ targetTileId = NullId
    /\ result = Outcome("none", TRUE, "", FALSE, FALSE, <<>>)
    /\ TimerInit
    /\ txn = <<>>

\* applyGateUnlock, and the same statement in init
ClearDepthsLock(rows) ==
    [i \in 1..Len(rows) |->
        IF rows[i].region = "great_depths" /\ rows[i].locked = 1
        THEN [rows[i] EXCEPT !.locked = 0] ELSE rows[i]]

\* the in-memory counterpart: every great_depths tile gets locked 0
ClearDepthsLockInMemory(ts) ==
    [i \in 1..Len(ts) |->
        IF ts[i].region = "great_depths" THEN [ts[i] EXCEPT !.locked = 0] ELSE ts[i]]

\* a faulty init that never unseals the depths (C39 must tell it apart)
InitGateRepair_Skipped(ts) == FALSE

\* init's "ensure Great Depths are not hard-locked" applies
InitGateRepair(ts) ==
    hasOpenedGate(ts) /\ \E t \in TileSet(ts) : t.region = "great_depths" /\ t.locked = 1

\* init's bootstrap: the start tile to conquer, or NullId
InitBootstrapId(ts) ==
    IF \E t \in TileSet(ts) : t.level >= 1 /\ t.feature # "void" /\ t.locked = 0
    THEN NullId
    ELSE pickStartAnchorId(ts)

SetLevelOne(rows, id) ==
    [i \in 1..Len(rows) |->
        IF rows[i].id = id
        THEN [rows[i] EXCEPT !.level = 1,
                             !.progress = totalRequiredForLevel(1, rows[i].region)]
        ELSE rows[i]]

\* init's target validation
InitTargetOk(ts, target) ==
    IF target # NullId /\ ById(ts, target) # <<>>
    THEN ById(ts, target)[1].feature # "void" /\ ById(ts, target)[1].locked = 0
    ELSE TRUE

\* init from its target validation on: write, load into the store, return
initValidated(db, repair, boot, tiles2, rows2) ==
    LET row == db.player[1]
        targetOk == InitTargetOk(tiles2, row.targetTileId)
    IN /\ dbTiles' = rows2
       /\ dbPlayer' = IF targetOk THEN db.player
                      ELSE <<[row EXCEPT !.targetTileId = NullId]>>
       /\ isReady' = TRUE
       /\ xp' = row.xp
       /\ pools' = [k \in ResourceKeys |-> row[k]]
       /\ tiles' = tiles2
       /\ sessions' = normalizeSessions(SubSeq(dbSessions, 1, Min(500, Len(dbSessions))))
       /\ targetTileId' = IF targetOk THEN row.targetTileId ELSE NullId
       /\ result' = Outcome("init", TRUE, "", FALSE, FALSE,
                            (IF repair THEN <<"UPDATE locked">> ELSE <<>>)
                            \o (IF boot THEN <<"UPDATE tiles">> ELSE <<>>)
                            \o (IF targetOk THEN <<>> ELSE <<"UPDATE player">>))
       /\ UNCHANGED <<layoutVer, dbSessions>>

\* init from its bootstrap on
initBootstrapped(db, repair, tiles1, rows1) ==
    LET startId == InitBootstrapId(tiles1)
        boot == startId # NullId /\ ById(tiles1, startId) # <<>>
    IN initValidated(db, repair, boot,
                     IF boot THEN SetLevelOne(tiles1, startId) ELSE tiles1,
                     IF boot THEN SetLevelOne(rows1, startId) ELSE rows1)

\* init from its gate repair on, db the tables initDb left
initLoaded(db) ==
    LET repair == InitGateRepair(db.tiles)
    IN initBootstrapped(db, repair,
                        IF repair THEN ClearDepthsLockInMemory(db.tiles) ELSE db.tiles,
                        IF repair THEN ClearDepthsLock(db.tiles) ELSE db.tiles)

init == initLoaded(initDb(dbTiles, dbPlayer, INNER_REALM_LAYOUT))

\* an update installs the build with the next layout; the process starts afresh
AppUpdate ==
    /\ layoutVer < Len(Layouts)
    /\ layoutVer' = layoutVer + 1
    /\ isReady' = FALSE
    /\ xp' = 0
    /\ pools' = ZeroPools
    /\ tiles' = <<>>
    /\ sessions' = <<>>
    /\ targetTileId' = NullId
    /\ result' = Outcome("none", TRUE, "", FALSE, FALSE, <<>>)
    /\ UNCHANGED <<dbTiles, dbPlayer, dbSessions>>

(***************************************************************************)
(* addSession                                                              *)
(***************************************************************************)
\* the calls the screens make: a timed core activity
SessionInputs ==
    {<<a, m, <<>>>> : a \in {"work", "study", "sport", "mindfulness"}, m \in SessionMinutes}

SessionStmts == <<"BEGIN", "INSERT sessions", "UPDATE player", "COMMIT">>

\* a faulty row that records the pinned target as the session's tile (C40 must
\* tell it apart)
SessionRow_PinnedTarget(session) ==
    [activity |-> session.activity, minutes |-> session.minutes,
     amount |-> session.amount, tileId |-> targetTileId]

\* the row addSession inserts: the tileId column is bound to null
SessionRow(session) ==
    [activity |-> session.activity, minutes |-> session.minutes,
     amount |-> session.amount, tileId |-> NullId]

\* a faulty validation that lets a zero amount pass (C21 must tell it apart)
SessionRefusal_ZeroAmountAccepted(activityRaw, amount) ==
    IF normalizeActivity(activityRaw) = "income" /\ amount = <<>>
    THEN "income_needs_amount"
    ELSE ""

\* the validation of addSession: the reason it refuses for, "" when it goes on
SessionRefusal(activityRaw, amount) ==
    IF normalizeActivity(activityRaw) = "income" /\ (amount = <<>> \/ amount[1] <= 0)
    THEN "income_needs_amount"
    ELSE ""

addSession(activityRaw, minutes, amount, fail) ==
    LET activity == normalizeActivity(activityRaw)
        isIncome == activity = "income"
        isCore == isCoreActivity(activity)
        safeMinutes == IF isIncome THEN 0 ELSE clampInt(minutes, 1)
        safeAmount == amount
        xpGain == IF isCore THEN safeMinutes ELSE 0
        delta == resourceGainsForSession(activity, safeMinutes, safeAmount)
        nextXp == xp + xpGain
        nextPools == [k \in ResourceKeys |-> pools[k] + delta[k]]
        newSession == [activity |-> activity, minutes |-> safeMinutes, amount |-> safeAmount]
    IN /\ isReady
       /\ IF SessionRefusal(activityRaw, safeAmount) # ""
          THEN /\ result' = Outcome("addSession", FALSE, SessionRefusal(activityRaw, safeAmount),
                                    FALSE, FALSE, <<>>)
               /\ UNCHANGED <<layoutVer, dbTiles, dbPlayer, dbSessions, isReady, xp, pools,
                              tiles, sessions, targetTileId>>
          ELSE IF Rejected(SessionStmts, fail)
          THEN /\ result' = Outcome("addSession", FALSE, "", FALSE, TRUE,
                                    Aborted(SessionStmts, fail))
               /\ UNCHANGED <<layoutVer, dbTiles, dbPlayer, dbSessions, isReady, xp, pools,
                              tiles, sessions, targetTileId>>
          ELSE /\ dbSessions' = <<SessionRow(newSession)>> \o dbSessions
               /\ dbPlayer' = [i \in 1..Len(dbPlayer) |->
                                 [dbPlayer[i] EXCEPT !.xp = nextXp,
                                                     !.craft = nextPools.craft,
                                                     !.lore = nextPools.lore,
                                                     !.vigor = nextPools.vigor,
                                                     !.clarity = nextPools.clarity,
                                                     !.gold = nextPools.gold]]
               /\ xp' = nextXp
               /\ pools' = nextPools
               /\ sessions' = <<newSession>> \o sessions
               /\ result' = Outcome("addSession", TRUE, "", FALSE, FALSE, SessionStmts)
               /\ UNCHANGED <<layoutVer, dbTiles, isReady, tiles, targetTileId>>

(***************************************************************************)
(* spendResourceOnTile                                                     *)
(***************************************************************************)
\* a faulty SpendRefusal without the MAX_LEVEL test (C5 must tell it apart)
SpendRefusal_NoMaxCheck(tileId, resource, minutes) ==
    LET spend == clampInt(minutes, 1)
        pool == pools[resource]
        t == ById(tiles, tileId)
    IN IF pool < spend THEN "not_enough"
       ELSE IF t = <<>> THEN "unknown_tile"
       ELSE IF ~canInvest(t[1], tiles) THEN investabilityReason(t[1], tiles)
       ELSE IF ~isActivityAllowedOnTile(ACTIVITY_FOR_RESOURCE(resource), t[1])
            THEN "realm_mismatch"
       ELSE ""

\* a faulty SpendRefusal without the pool test (C6 must tell it apart)
SpendRefusal_NoPoolCheck(tileId, resource, minutes) ==
    LET t == ById(tiles, tileId)
    IN IF t = <<>> THEN "unknown_tile"
       ELSE IF ~canInvest(t[1], tiles) THEN investabilityReason(t[1], tiles)
       ELSE IF t[1].level >= MAX_LEVEL THEN "maxed"
       ELSE IF ~isActivityAllowedOnTile(ACTIVITY_FOR_RESOURCE(resource), t[1])
            THEN "realm_mismatch"
       ELSE ""

\* a faulty SpendRefusal that tests the realm before reachability (C7 must
\* tell it apart)
SpendRefusal_RealmFirst(tileId, resource, minutes) ==
    LET spend == clampInt(minutes, 1)
        pool == pools[resource]
        t == ById(tiles, tileId)
    IN IF pool < spend THEN "not_enough"
       ELSE IF t = <<>> THEN "unknown_tile"
       ELSE IF ~isActivityAllowedOnTile(ACTIVITY_FOR_RESOURCE(resource), t[1])
            THEN "realm_mismatch"
       ELSE IF ~canInvest(t[1], tiles) THEN investabilityReason(t[1], tiles)
       ELSE IF t[1].level >= MAX_LEVEL THEN "maxed"
       ELSE ""

\* the reason of the first precondition that fails, "" when none does
SpendRefusal(tileId, resource, minutes) ==
    LET spend == clampInt(minutes, 1)
        pool == pools[resource]
        t == ById(tiles, tileId)
    IN IF pool < spend THEN "not_enough"
       ELSE IF t = <<>> THEN "unknown_tile"
       ELSE IF ~canInvest(t[1], tiles) THEN investabilityReason(t[1], tiles)
       ELSE IF t[1].level >= MAX_LEVEL THEN "maxed"
       ELSE IF ~isActivityAllowedOnTile(ACTIVITY_FOR_RESOURCE(resource), t[1])
            THEN "realm_mismatch"
       ELSE ""

\* a faulty unlockedNow that reports every level-up (C8 must tell it apart)
UnlockedNow_AnyLevelUp(t, updated) == updated.level > t.level

UnlockedNow(t, updated) == t.level < 1 /\ updated.level >= 1

GateOpenedNow(t, updated) == t.feature = "gate" /\ UnlockedNow(t, updated)

SpendStmts(gateOpenedNow) ==
    <<"BEGIN", "UPDATE tiles", "UPDATE player">>
    \o (IF gateOpenedNow THEN <<"UPDATE locked">> ELSE <<>>)
    \o <<"COMMIT">>

\* a faulty update of the store that leaves the locks alone (C9 must tell it
\* apart)
SpendNextTiles_LocksKept(ts, updated, gateOpenedNow) ==
    [i \in 1..Len(ts) |-> IF ts[i].id = updated.id THEN updated ELSE ts[i]]

\* the store's tiles after a spend that went through
SpendNextTiles(ts, updated, gateOpenedNow) ==
    LET replaced == [i \in 1..Len(ts) |-> IF ts[i].id = updated.id THEN updated ELSE ts[i]]
    IN IF gateOpenedNow THEN ClearDepthsLockInMemory(replaced) ELSE replaced

\* the tiles table after the transaction of a spend
SpendNextRows(rows, updated, gateOpenedNow) ==
    LET written == [i \in 1..Len(rows) |->
                       IF rows[i].id = updated.id
                       THEN [rows[i] EXCEPT !.level = updated.level,
                                            !.progress = updated.progress]
                       ELSE rows[i]]
    IN IF gateOpenedNow THEN ClearDepthsLock(written) ELSE written

spendResourceOnTile(tileId, resource, minutes, fail) ==
    LET spend == clampInt(minutes, 1)
        refusal == SpendRefusal(tileId, resource, minutes)
        t == ById(tiles, tileId)[1]
        updated == applyMinutes(t, spend)
        unlockedNow == UnlockedNow(t, updated)
        gateOpenedNow == GateOpenedNow(t, updated)
        nextPool == pools[resource] - spend
        stmts == SpendStmts(gateOpenedNow)
    IN /\ isReady
       /\ IF refusal # ""
          THEN /\ result' = Outcome("spend", FALSE, refusal, FALSE, FALSE, <<>>)
               /\ UNCHANGED <<layoutVer, dbTiles, dbPlayer, dbSessions, isReady, xp, pools,
                              tiles, sessions, targetTileId>>
          ELSE IF Rejected(stmts, fail)
          THEN /\ result' = Outcome("spend", FALSE, "", FALSE, TRUE,
                                    Aborted(stmts, fail))
               /\ UNCHANGED <<layoutVer, dbTiles, dbPlayer, dbSessions, isReady, xp, pools,
                              tiles, sessions, targetTileId>>
          ELSE /\ dbTiles' = SpendNextRows(dbTiles, updated, gateOpenedNow)
               /\ dbPlayer' = [i \in 1..Len(dbPlayer) |->
                                 [dbPlayer[i] EXCEPT ![resource] = nextPool]]
               /\ tiles' = SpendNextTiles(tiles, updated, gateOpenedNow)
               /\ pools' = [pools EXCEPT ![resource] = nextPool]
               /\ result' = Outcome("spend", TRUE, "", unlockedNow, FALSE, stmts)
               /\ UNCHANGED <<layoutVer, dbSessions, isReady, xp, sessions, targetTileId>>

\* an update installs any later build; the process starts afresh
Install(v) ==
    /\ v > layoutVer
    /\ layoutVer' = v
    /\ isReady' = FALSE
    /\ xp' = 0
    /\ pools' = ZeroPools
    /\ tiles' = <<>>
    /\ sessions' = <<>>
    /\ targetTileId' = NullId
    /\ result' = Outcome("none", TRUE, "", FALSE, FALSE, <<>>)
    /\ UNCHANGED <<dbTiles, dbPlayer, dbSessions>>

(***************************************************************************)
(* setTargetTile                                                           *)
(***************************************************************************)
\* a faulty guard that only looks for the tile (C26 must tell it apart)
TargetRefused_SealedAccepted(ts, tileId) ==
    tileId # NullId /\ ById(ts, tileId) = <<>>

\* setTargetTile's early returns: an unknown, void or sealed tile
TargetRefused(ts, tileId) ==
    /\ tileId # NullId
    /\ \/ ById(ts, tileId) = <<>>
       \/ ById(ts, tileId)[1].feature = "void"
       \/ ById(ts, tileId)[1].locked = 1

setTargetTile(tileId) ==
    /\ isReady
    /\ IF TargetRefused(tiles, tileId)
       THEN /\ result' = Outcome("setTargetTile", TRUE, "ignored", FALSE, FALSE, <<>>)
            /\ UNCHANGED <<layoutVer, dbTiles, dbPlayer, dbSessions, isReady, xp, pools,
                           tiles, sessions, targetTileId>>
       ELSE /\ dbPlayer' = [i \in 1..Len(dbPlayer) |->
                              [dbPlayer[i] EXCEPT !.targetTileId = tileId]]
            /\ targetTileId' = tileId
            /\ result' = Outcome("setTargetTile", TRUE, "", FALSE, FALSE, <<"UPDATE player">>)
            /\ UNCHANGED <<layoutVer, dbTiles, dbSessions, isReady, xp, pools, tiles,
                           sessions>>

(***************************************************************************)
(* The inputs the calls are tried with, and the specification.             *)
(***************************************************************************)
\* every cell of the largest layout, and an id no tile has
TileIdInputs ==
    {Cell(Layouts[Len(Layouts)], k) :
        k \in 1..(LayoutRows(Layouts[Len(Layouts)]) * LayoutCols(Layouts[Len(Layouts)]))}
    \cup {<<9, 9>>}

TargetInputs == {<<0, 1>>, <<1, 0>>, <<9, 9>>}

DoInit == init /\ UNCHANGED <<timerVars, txn>>

DoAppUpdate == AppUpdate /\ UNCHANGED <<timerVars, txn>>

DoAddSession ==
    \E inp \in SessionInputs, fail \in FailPoints :
        /\ Rejected(SessionStmts, fail) \/ Len(dbSessions) < MaxSessions
        /\ addSession(inp[1], inp[2], inp[3], fail)
        /\ UNCHANGED <<timerVars, txn>>

\* the storage engine can reject a statement only of a call that issues one
DoSpend ==
    \E id \in TileIdInputs, r \in SpendableResources, m \in SpendMinutes :
        \E fail \in (IF SpendRefusal(id, r, m) = "" THEN FailPoints ELSE {"none"}) :
            spendResourceOnTile(id, r, m, fail) /\ UNCHANGED <<timerVars, txn>>

DoSetTarget == \E id \in TargetInputs : setTargetTile(id) /\ UNCHANGED <<timerVars, txn>>

Next == DoInit \/ DoAppUpdate \/ DoAddSession \/ DoSpend \/ DoSetTarget

Spec == Init /\ [][Next]_vars

(***************************************************************************)
(* The adjacency queries on tile lists of their own: a 3x3 grid and a      *)
(* tenth tile two cells east of its centre.  Every tile is at level 0 or   *)
(* 1; one tile at most is sealed, void or missing.                         *)
(***************************************************************************)
AdjCells ==
    <<<<0, 0>>, <<0, 1>>, <<0, 2>>, <<1, 0>>, <<1, 1>>, <<1, 2>>,
      <<2, 0>>, <<2, 1>>, <<2, 2>>, <<1, 3>>>>

AdjKinds == {"sealed", "void", "missing"}

AdjSpecials == {<<>>} \cup {<<k, kind>> : k \in {2, 5, 9}, kind \in AdjKinds}

AdjTile(k, lvl, kind) ==
    LET region == IF kind = "void" THEN "void_heart"
                  ELSE IF kind = "sealed" THEN "great_depths"
                  ELSE "mountains_doubt"
    IN [id |-> AdjCells[k], row |-> AdjCells[k][1], col |-> AdjCells[k][2],
        region |-> region, level |-> lvl,
        progress |-> totalRequiredForLevel(lvl, region),
        feature |-> IF kind = "void" THEN "void" ELSE "none",
        locked |-> IF kind \in {"sealed", "void"} THEN 1 ELSE 0]

AdjTiles(lv, special) ==
    LET kindOf(k) == IF special # <<>> /\ special[1] = k THEN special[2] ELSE "plain"
        all == [k \in 1..Len(AdjCells) |-> AdjTile(k, lv[k], kindOf(k))]
    IN SelectSeq(all, LAMBDA t :
           ~(special # <<>> /\ special[2] = "missing" /\ t.id = AdjCells[special[1]]))

InitAdj ==
    /\ layoutVer = 1
    /\ dbTiles = <<>>
    /\ dbPlayer = <<>>
    /\ dbSessions = <<>>
    /\ isReady = FALSE
    /\ xp = 0
    /\ pools = ZeroPools
    /\ \E lv \in [1..Len(AdjCells) -> {0, 1}], special \in AdjSpecials :
          tiles = AdjTiles(lv, special)
    /\ sessions = <<>>
    /\ targetTileId = NullId
    /\ result = [op |-> "none"]
    /\ TimerInit
    /\ txn = <<>>

\* the map screen asks which tiles can be invested in, and why not
QueryInvestable ==
    /\ result.op = "none"
    /\ result' = [op |-> "computeInvestableIds",
                  ids |-> computeInvestableIds(tiles),
                  reasons |-> [id \in {t.id : t \in TileSet(tiles)} |->
                                  investabilityReason(ById(tiles, id)[1], tiles)]]
    /\ UNCHANGED <<layoutVer, dbTiles, dbPlayer, dbSessions, isReady, xp, pools, tiles,
                   sessions, targetTileId>>
    /\ UNCHANGED <<timerVars, txn>>

NextAdj == QueryInvestable

SpecAdj == InitAdj /\ [][NextAdj]_vars

(***************************************************************************)
(* The progression functions on a tile of their own: a tile of any region  *)
(* that starts empty and has minutes applied to it again and again.        *)
(***************************************************************************)
MaxProgress == 800

\* minutes one applyMinutes call may add
ProgAdds == {0, 1, 60, 700}

ProgTile(region) ==
    [id |-> <<0, 0>>, row |-> 0, col |-> 0, region |-> region, level |-> 0,
     progress |-> 0, feature |-> "none", locked |-> 0]

InitProg ==
    /\ layoutVer = 1
    /\ dbTiles = <<>>
    /\ dbPlayer = <<>>
    /\ dbSessions = <<>>
    /\ isReady = FALSE
    /\ xp = 0
    /\ pools = ZeroPools
    /\ \E region \in RegionTypes : tiles = <<ProgTile(region)>>
    /\ sessions = <<>>
    /\ targetTileId = NullId
    /\ result = [op |-> "none", add |-> 0, ratio |-> <<0, 1>>]
    /\ TimerInit
    /\ txn = <<>>

ApplyMinutes ==
    \E add \in ProgAdds :
        LET updated == applyMinutes(tiles[1], add)
        IN /\ tiles[1].progress + add <= MaxProgress
           /\ tiles' = <<updated>>
           /\ result' = [op |-> "applyMinutes", add |-> add,
                         ratio |-> tileProgressRatio(updated)]
           /\ UNCHANGED <<layoutVer, dbTiles, dbPlayer, dbSessions, isReady, xp, pools,
                          sessions, targetTileId>>
           /\ UNCHANGED <<timerVars, txn>>

NextProg == ApplyMinutes

SpecProg == InitProg /\ [][NextProg]_vars

(***************************************************************************)
(* The timer store.  Its calls are asynchronous: each runs up to its next  *)
(* await, where the statement it sent is executed, and goes on after the   *)
(* calls that reached their await before it.  A second call may therefore  *)
(* start while the first one waits.  The clock advances between calls.     *)
(***************************************************************************)
MaxTimers == 2

MaxPending == 2

MaxHandoffs == 2

\* how often the clock advances
MaxTicks == 1

\* the time that may pass between two calls: 20 seconds, 90 seconds, 70 minutes
TickMs == {20000, 90000, 4200000}

\* the advances that led to the time at
TicksTaken(at) ==
    (at \div 4200000) + ((at % 4200000) \div 90000) + (((at % 4200000) % 90000) \div 20000)

\* startSession(activity, mode, durationMinutes) as the setup screen calls it
StartInputs == {<<"work", "countup", 0>>, <<"study", "countdown", 25>>}

\* row.x == null ? null : Number(row.x), as <<>> or <<x>>
normalizeSession(row) == row

\* Math.round(a / b) for a >= 0, b > 0
RoundDiv(a, b) == (2 * a + b) \div (2 * b)

\* ORDER BY startedAt DESC LIMIT 1 over the running rows: every row it may return
LatestRunning(rows) ==
    LET running == {r \in TileSet(rows) : r.status = "running"}
    IN IF running = {} THEN {<<>>}
       ELSE {<<normalizeSession(r)>> : r \in
                {x \in running : \A y \in running : y.startedAt <= x.startedAt}}

\* ORDER BY stoppedAt DESC LIMIT 1 over the stopped rows
LatestStopped(rows) ==
    LET stopped == {r \in TileSet(rows) : r.status = "stopped"}
    IN IF stopped = {} THEN {<<>>}
       ELSE {<<normalizeSession(r)>> : r \in
                {x \in stopped : \A y \in stopped : y.stoppedAt[1] <= x.stoppedAt[1]}}

fetchActiveSession(rows) ==
    IF LatestRunning(rows) # {<<>>} THEN LatestRunning(rows) ELSE LatestStopped(rows)

\* UPDATE timer_sessions SET status = ?, stoppedAt = ? WHERE id = ?
UpdateTimer(rows, id, status, stoppedAt) ==
    [i \in 1..Len(rows) |->
        IF rows[i].id = id
        THEN [rows[i] EXCEPT !.status = status, !.stoppedAt = stoppedAt]
        ELSE rows[i]]

\* DELETE FROM timer_sessions WHERE id = ?
DeleteTimer(rows, id) == SelectSeq(rows, LAMBDA r : r.id # id)

\* a call waiting on an await
Waiting(op, step, session, input, minutes) ==
    [op |-> op, step |-> step, session |-> session, input |-> input, minutes |-> minutes]

HeadIs(op, step) == pend # <<>> /\ pend[1].op = op /\ pend[1].step = step

CountWaiting(op) == Cardinality({i \in 1..Len(pend) : pend[i].op = op})

\* Date.now() moves on; an await takes no time that a session's minutes could show
Tick ==
    \E d \in TickMs :
        /\ pend = <<>>
        /\ TicksTaken(now) < MaxTicks
        /\ now' = now + d
        /\ UNCHANGED <<dbTimers, timerReady, activeSession, nextTimerId, pend, handoffs>>
        /\ UNCHANGED gameVars

\* init, when the store is not ready yet: initDb, fetchActiveSession, set
timerInit(active) ==
    LET db == initDb(dbTiles, dbPlayer, INNER_REALM_LAYOUT)
    IN /\ active \in fetchActiveSession(dbTimers)
       /\ dbTiles' = db.tiles
       /\ dbPlayer' = db.player
       /\ timerReady' = TRUE
       /\ UNCHANGED <<layoutVer, dbSessions, isReady, xp, pools, tiles, sessions,
                      targetTileId, result, txn>>

\* if (!get().isReady) await get().init(): the activeSession the call goes on with
EnsureReady(active) ==
    IF timerReady
    THEN active = activeSession /\ UNCHANGED timerReady /\ UNCHANGED gameVars
    ELSE timerInit(active)

ActiveOptions ==
    IF timerReady THEN {activeSession} ELSE fetchActiveSession(dbTimers)

(***************************************************************************)
(* refreshActiveSession                                                    *)
(***************************************************************************)
RefreshCall ==
    \E active \in ActiveOptions, found \in LatestRunning(dbTimers) :
        /\ Len(pend) < MaxPending
        /\ EnsureReady(active)
        /\ activeSession' = active
        /\ pend' = Append(pend, Waiting("refresh", 1, found, <<>>, 0))
        /\ UNCHANGED <<dbTimers, now, nextTimerId, handoffs>>

\* the running row came back, or the query for the stopped row is sent
RefreshQueried ==
    /\ HeadIs("refresh", 1)
    /\ IF pend[1].session # <<>>
       THEN /\ activeSession' = pend[1].session
            /\ pend' = Tail(pend)
       ELSE /\ \E found \in LatestStopped(dbTimers) :
                  pend' = Append(Tail(pend), Waiting("refresh", 2, found, <<>>, 0))
            /\ UNCHANGED activeSession
    /\ UNCHANGED <<dbTimers, timerReady, now, nextTimerId, handoffs>>
    /\ UNCHANGED gameVars

RefreshDone ==
    /\ HeadIs("refresh", 2)
    /\ activeSession' = pend[1].session
    /\ pend' = Tail(pend)
    /\ UNCHANGED <<dbTimers, timerReady, now, nextTimerId, handoffs>>
    /\ UNCHANGED gameVars

(***************************************************************************)
(* startSession                                                            *)
(***************************************************************************)
StartCall ==
    \E input \in StartInputs, active \in ActiveOptions, existing \in LatestRunning(dbTimers) :
        /\ Len(pend) < MaxPending
        /\ nextTimerId + CountWaiting("start") <= MaxTimers
        /\ EnsureReady(active)
        /\ activeSession' = active
        /\ pend' = Append(pend, Waiting("start", 1, existing, input, 0))
        /\ UNCHANGED <<dbTimers, now, nextTimerId, handoffs>>

EndsAt(mode, durationMinutes, at) ==
    IF mode = "countdown" /\ durationMinutes # 0
    THEN <<at + Max(1, durationMinutes) * 60 * 1000>>
    ELSE <<>>

NewTimerSession(id, input, at) ==
    [id |-> id, activity |-> input[1], mode |-> input[2], startedAt |-> at,
     endsAt |-> EndsAt(input[2], input[3], at), stoppedAt |-> <<>>, status |-> "running"]

\* the query for a running row came back: refuse, or insert the new row
StartQueried ==
    /\ HeadIs("start", 1)
    /\ IF pend[1].session # <<>>
       THEN \* { ok: false, reason: "A timer session is already running." }
            /\ activeSession' = pend[1].session
            /\ pend' = Tail(pend)
            /\ UNCHANGED <<dbTimers, nextTimerId>>
       ELSE LET session == NewTimerSession(nextTimerId, pend[1].input, now)
            IN /\ dbTimers' = Append(dbTimers, session)
               /\ nextTimerId' = nextTimerId + 1
               /\ pend' = Append(Tail(pend), Waiting("start", 2, <<session>>, <<>>, 0))
               /\ UNCHANGED activeSession
    /\ UNCHANGED <<timerReady, now, handoffs>>
    /\ UNCHANGED gameVars

StartDone ==
    /\ HeadIs("start", 2)
    /\ activeSession' = pend[1].session
    /\ pend' = Tail(pend)
    /\ UNCHANGED <<dbTimers, timerReady, now, nextTimerId, handoffs>>
    /\ UNCHANGED gameVars

(***************************************************************************)
(* stopSession, resumeSession, discardSession                              *)
(***************************************************************************)
StopCall ==
    /\ Len(pend) < MaxPending
    /\ IF activeSession = <<>> \/ activeSession[1].status # "running"
       THEN UNCHANGED <<dbTimers, pend>>
       ELSE LET next == [activeSession[1] EXCEPT !.status = "stopped", !.stoppedAt = <<now>>]
            IN /\ dbTimers' = UpdateTimer(dbTimers, next.id, "stopped", <<now>>)
               /\ pend' = Append(pend, Waiting("stop", 1, <<next>>, <<>>, 0))
    /\ UNCHANGED <<timerReady, activeSession, now, nextTimerId, handoffs>>
    /\ UNCHANGED gameVars

StopDone ==
    /\ HeadIs("stop", 1)
    /\ activeSession' = pend[1].session
    /\ pend' = Tail(pend)
    /\ UNCHANGED <<dbTimers, timerReady, now, nextTimerId, handoffs>>
    /\ UNCHANGED gameVars

ResumeCall ==
    /\ Len(pend) < MaxPending
    /\ IF activeSession = <<>> \/ activeSession[1].status # "stopped"
       THEN UNCHANGED <<dbTimers, pend>>
       ELSE LET next == [activeSession[1] EXCEPT !.status = "running", !.stoppedAt = <<>>]
            IN /\ dbTimers' = UpdateTimer(dbTimers, next.id, "running", <<>>)
               /\ pend' = Append(pend, Waiting("resume", 1, <<next>>, <<>>, 0))
    /\ UNCHANGED <<timerReady, activeSession, now, nextTimerId, handoffs>>
    /\ UNCHANGED gameVars

ResumeDone ==
    /\ HeadIs("resume", 1)
    /\ activeSession' = pend[1].session
    /\ pend' = Tail(pend)
    /\ UNCHANGED <<dbTimers, timerReady, now, nextTimerId, handoffs>>
    /\ UNCHANGED gameVars

DiscardCall ==
    /\ Len(pend) < MaxPending
    /\ IF activeSession = <<>>
       THEN UNCHANGED <<dbTimers, pend>>
       ELSE /\ dbTimers' = DeleteTimer(dbTimers, activeSession[1].id)
            /\ pend' = Append(pend, Waiting("discard", 1, activeSession, <<>>, 0))
    /\ UNCHANGED <<timerReady, activeSession, now, nextTimerId, handoffs>>
    /\ UNCHANGED gameVars

\* a faulty discard that logs the discarded session (C18 must tell it apart)
DiscardDone_LogsSession ==
    /\ HeadIs("discard", 1)
    /\ activeSession' = <<>>
    /\ pend' = Tail(pend)
    /\ addSession(pend[1].session[1].activity, 1, <<>>, "none")
    /\ UNCHANGED <<dbTimers, timerReady, now, nextTimerId, handoffs, txn>>

DiscardDone ==
    /\ HeadIs("discard", 1)
    /\ activeSession' = <<>>
    /\ pend' = Tail(pend)
    /\ UNCHANGED <<dbTimers, timerReady, now, nextTimerId, handoffs>>
    /\ UNCHANGED gameVars

(***************************************************************************)
(* commitSession                                                           *)
(***************************************************************************)
\* current.stoppedAt ?? Date.now()
CommitStoppedAt(current, at) ==
    IF current.stoppedAt # <<>> THEN current.stoppedAt[1] ELSE at

\* a faulty minutes that a countdown caps at its planned end (C20 must tell it apart)
CommitMinutes_UpToEndsAt(current, stoppedAt) ==
    LET end == IF current.endsAt # <<>> THEN Min(stoppedAt, current.endsAt[1]) ELSE stoppedAt
    IN Max(1, RoundDiv(Max(0, end - current.startedAt), 60000))

CommitMinutes(current, stoppedAt) ==
    LET durationMs == Max(0, stoppedAt - current.startedAt)
    IN Max(1, RoundDiv(durationMs, 60000))

CommitCall ==
    /\ Len(pend) < MaxPending
    /\ IF activeSession = <<>>
       THEN \* { ok: false, reason: "No session to commit." }
            UNCHANGED <<dbTimers, pend>>
       ELSE LET current == activeSession[1]
                stoppedAt == CommitStoppedAt(current, now)
                minutes == CommitMinutes(current, stoppedAt)
            IN /\ Len(handoffs) + CountWaiting("commit") < MaxHandoffs
               /\ dbTimers' = UpdateTimer(dbTimers, current.id, "committed", <<stoppedAt>>)
               /\ pend' = Append(pend, Waiting("commit", 1, activeSession, <<>>, minutes))
    /\ UNCHANGED <<timerReady, activeSession, now, nextTimerId, handoffs>>
    /\ UNCHANGED gameVars

\* void game.addSession(current.activity, minutes).catch(() => {}), and the return
CommitHandoff ==
    \E fail \in FailPoints :
        /\ addSession(pend[1].session[1].activity, pend[1].minutes, <<>>, fail)
        /\ handoffs' = Append(handoffs, [id |-> pend[1].session[1].id,
                                         activity |-> pend[1].session[1].activity,
                                         minutes |-> pend[1].minutes])
        /\ pend' = Tail(pend)

\* the update came back: set({ activeSession: null }), then the game store
CommitUpdated ==
    /\ HeadIs("commit", 1)
    /\ activeSession' = <<>>
    /\ IF isReady
       THEN CommitHandoff
       ELSE /\ init
            /\ pend' = Append(Tail(pend), [pend[1] EXCEPT !.step = 2])
            /\ UNCHANGED handoffs
    /\ UNCHANGED <<dbTimers, timerReady, now, nextTimerId, txn>>

\* game.init() came back
CommitGameReady ==
    /\ HeadIs("commit", 2)
    /\ CommitHandoff
    /\ UNCHANGED <<dbTimers, timerReady, activeSession, now, nextTimerId, txn>>

NextTimer ==
    \/ Tick
    \/ RefreshCall \/ RefreshQueried \/ RefreshDone
    \/ StartCall \/ StartQueried \/ StartDone
    \/ StopCall \/ StopDone
    \/ ResumeCall \/ ResumeDone
    \/ DiscardCall \/ DiscardDone
    \/ CommitCall \/ CommitUpdated \/ CommitGameReady

SpecTimer == Init /\ [][NextTimer]_vars

(***************************************************************************)
(* The session log on the first layout: sessions of every activity, with   *)
(* minutes and amounts a caller may pass, spends from the pools they fill, *)
(* and the storage engine rejecting any one statement of a transaction.    *)
(***************************************************************************)
MaxLogged == 2

\* the activities a caller may log, the legacy name included
LogActivities == {"work", "study", "sport", "mindfulness", "meditation", "income", "habit"}

\* minutes as passed: negative, zero, positive
LogMinutes == {-5, 0, 90}

\* amount as passed: null, zero, positive
LogAmounts == {<<>>, <<0>>, <<40>>}

\* the statement the storage engine rejects, if any
LogFailPoints ==
    {"none", "BEGIN", "INSERT sessions", "UPDATE tiles", "UPDATE player", "UPDATE locked",
     "COMMIT"}

\* the tiles a spend is tried on: the start tile, the gate, the sealed tile, no tile
LogTileIds == {<<0, 0>>, <<0, 1>>, <<1, 1>>, <<9, 9>>}

\* addSession(activityRaw, minutes, subtype, amount, note) as <<activityRaw, minutes, amount>>:
\* timed activities without an amount, work with one, income with each amount
LogInputs ==
    {<<a, m, <<>>>> : a \in LogActivities \ {"income"}, m \in LogMinutes}
    \cup {<<"work", 90, <<40>>>>}
    \cup {<<"income", 90, amount>> : amount \in LogAmounts}

\* minutes a spend may carry
LogSpendMinutes == {45, 90}

LogSession ==
    \E inp \in LogInputs, fail \in LogFailPoints :
        /\ Len(dbSessions) < MaxLogged
        /\ addSession(inp[1], inp[2], inp[3], fail)
        /\ UNCHANGED <<timerVars, txn>>

LogSpend ==
    \E id \in LogTileIds, r \in SpendableResources, m \in LogSpendMinutes :
        \E fail \in (IF SpendRefusal(id, r, m) = "" THEN LogFailPoints ELSE {"none"}) :
            spendResourceOnTile(id, r, m, fail) /\ UNCHANGED <<timerVars, txn>>

NextLog == DoInit \/ LogSession \/ LogSpend \/ DoSetTarget

SpecLog == Init /\ [][NextLog]_vars

(***************************************************************************)
(* The store across builds whose layouts grow, are repainted and shrink:   *)
(* every persisted table the sync meets was written by an earlier build.   *)
(***************************************************************************)
SyncTargetInputs == {<<0, 1>>, <<0, 2>>, <<1, 1>>, NullId}

DoInstall == \E v \in 1..Len(AllLayouts) : Install(v) /\ UNCHANGED <<timerVars, txn>>

SyncSetTarget == \E id \in SyncTargetInputs : setTargetTile(id) /\ UNCHANGED <<timerVars, txn>>

NextSync == DoInit \/ DoInstall \/ DoAddSession \/ DoSpend \/ SyncSetTarget

SpecSync == Init /\ [][NextSync]_vars

(***************************************************************************)
(* lib/devtools/dbBackup.ts: the resets of the developer screen, whose     *)
(* handler awaits the reset and then the store's init.                     *)
(***************************************************************************)
\* UPDATE tiles SET level = 0, progress = 0
resetTilesRows(rows) == [i \in 1..Len(rows) |-> [rows[i] EXCEPT !.level = 0, !.progress = 0]]

\* UPDATE player SET xp = 0, targetTileId = NULL
resetPlayerRows(rows) ==
    [i \in 1..Len(rows) |-> [rows[i] EXCEPT !.xp = 0, !.targetTileId = NullId]]

resetTiles ==
    /\ isReady
    /\ dbTiles' = resetTilesRows(dbTiles)
    /\ result' = Outcome("resetTiles", TRUE, "", FALSE, FALSE, <<"UPDATE tiles">>)
    /\ UNCHANGED <<layoutVer, dbPlayer, dbSessions, isReady, xp, pools, tiles, sessions,
                   targetTileId>>

resetPlayer ==
    /\ isReady
    /\ dbPlayer' = resetPlayerRows(dbPlayer)
    /\ result' = Outcome("resetPlayer", TRUE, "", FALSE, FALSE, <<"UPDATE player">>)
    /\ UNCHANGED <<layoutVer, dbTiles, dbSessions, isReady, xp, pools, tiles, sessions,
                   targetTileId>>

ResetOps == {"resetTiles", "resetPlayer"}

\* the handler of a reset goes on with init; the screens are busy until then
DevIdle == result.op \notin ResetOps

DevAddSession == DevIdle /\ DoAddSession

DevSpend == DevIdle /\ DoSpend

DevSetTarget == DevIdle /\ DoSetTarget

DevResetTiles == DevIdle /\ resetTiles /\ UNCHANGED <<timerVars, txn>>

DevResetPlayer == DevIdle /\ resetPlayer /\ UNCHANGED <<timerVars, txn>>

NextDev ==
    DoInit \/ DevAddSession \/ DevSpend \/ DevSetTarget \/ DevResetTiles \/ DevResetPlayer

SpecDev == Init /\ [][NextDev]_vars

(***************************************************************************)
(* Store calls that overlap.  The store holds no lock and lib/dbCore.ts    *)
(* hands every statement to one connection, which runs them in the order   *)
(* they were issued.  A call runs to its first await, waits in pend for    *)
(* the statement it issued, and goes on when that statement has run.       *)
(***************************************************************************)
MaxRacing == 2

MaxRaceSessions == 2

\* addSession(activityRaw, minutes, subtype, amount, note) as <<activityRaw, minutes, amount>>
RaceSessions == {<<"sport", 90, <<>>>>, <<"income", 0, <<>>>>}

\* the start tile, the gate, the tile of the depths behind it
RaceTileIds == {<<0, 0>>, <<0, 1>>, <<1, 1>>}

RaceSpendMinutes == {90}

RaceTargets == {<<0, 1>>, <<1, 1>>, NullId}

\* a call waiting on the statement `at` it has issued, with its locals
Suspended(op, at, sent, locals) ==
    [op |-> op, at |-> at, sent |-> Append(sent, at), locals |-> locals]

\* pend once its oldest call has issued its next statement
MoveOn(at, locals) ==
    Append(Tail(pend), Suspended(pend[1].op, at, pend[1].sent, locals))

\* the statement the connection runs next, and the call that waits on it
Running(op, at) == pend # <<>> /\ pend[1].op = op /\ pend[1].at = at

\* the variables no overlapping store call touches
raceIdle == <<layoutVer, isReady, dbTimers, timerReady, activeSession, now, nextTimerId,
              handoffs>>

\* addSession up to its first await: the validation, the gains, run("BEGIN;")
RaceSessionCall ==
    \E inp \in RaceSessions :
        LET activity == normalizeActivity(inp[1])
            isIncome == activity = "income"
            safeMinutes == IF isIncome THEN 0 ELSE clampInt(inp[2], 1)
            safeAmount == inp[3]
            xpGain == IF isCoreActivity(activity) THEN safeMinutes ELSE 0
            delta == resourceGainsForSession(activity, safeMinutes, safeAmount)
        IN /\ isReady
           /\ Len(pend) < MaxRacing
           /\ Len(dbSessions) + CountWaiting("addSession") < MaxRaceSessions
           /\ IF SessionRefusal(inp[1], safeAmount) # ""
              THEN /\ result' = Outcome("addSession", FALSE,
                                        SessionRefusal(inp[1], safeAmount), FALSE, FALSE, <<>>)
                   /\ UNCHANGED pend
              ELSE /\ pend' = Append(pend, Suspended("addSession", "BEGIN", <<>>,
                                 [session |-> [activity |-> activity, minutes |-> safeMinutes,
                                               amount |-> safeAmount],
                                  xpGain |-> xpGain, delta |-> delta,
                                  nextXp |-> 0, nextPools |-> ZeroPools]))
                   /\ UNCHANGED result
           /\ UNCHANGED <<dbTiles, dbPlayer, dbSessions, xp, pools, tiles, sessions,
                          targetTileId, txn>>
           /\ UNCHANGED raceIdle

\* spendResourceOnTile up to its first await: get(), the checks, the updated
\* tile and the next pool, run("BEGIN;")
RaceSpendCall ==
    \E id \in RaceTileIds, r \in {"vigor"}, m \in RaceSpendMinutes :
        LET spend == clampInt(m, 1)
            t == ById(tiles, id)[1]
            updated == applyMinutes(t, spend)
        IN /\ isReady
           /\ Len(pend) < MaxRacing
           /\ IF SpendRefusal(id, r, m) # ""
              THEN /\ result' = Outcome("spend", FALSE, SpendRefusal(id, r, m), FALSE, FALSE,
                                        <<>>)
                   /\ UNCHANGED pend
              ELSE /\ pend' = Append(pend, Suspended("spend", "BEGIN", <<>>,
                                 [tiles |-> tiles, updated |-> updated, resource |-> r,
                                  spend |-> spend, nextPool |-> pools[r] - spend,
                                  unlockedNow |-> UnlockedNow(t, updated),
                                  gateOpenedNow |-> GateOpenedNow(t, updated)]))
                   /\ UNCHANGED result
           /\ UNCHANGED <<dbTiles, dbPlayer, dbSessions, xp, pools, tiles, sessions,
                          targetTileId, txn>>
           /\ UNCHANGED raceIdle

\* setTargetTile up to its await: the early returns, run(UPDATE player)
RaceTargetCall ==
    \E id \in RaceTargets :
        /\ isReady
        /\ Len(pend) < MaxRacing
        /\ IF TargetRefused(tiles, id)
           THEN /\ result' = Outcome("setTargetTile", TRUE, "ignored", FALSE, FALSE, <<>>)
                /\ UNCHANGED pend
           ELSE /\ pend' = Append(pend, Suspended("setTargetTile", "UPDATE player", <<>>,
                                                  [tileId |-> id]))
                /\ UNCHANGED result
        /\ UNCHANGED <<dbTiles, dbPlayer, dbSessions, xp, pools, tiles, sessions,
                       targetTileId, txn>>
        /\ UNCHANGED raceIdle

\* BEGIN runs.  The engine refuses a transaction within a transaction, and
\* BEGIN is sent before the try block: the call rejects and sends no ROLLBACK.
\* Otherwise addSession reads get() for its next values and inserts the
\* session, spendResourceOnTile writes the tile.
RaceBegin ==
    /\ pend # <<>>
    /\ pend[1].at = "BEGIN"
    /\ IF txn # <<>>
       THEN /\ result' = Outcome(pend[1].op, FALSE, "", FALSE, TRUE, pend[1].sent)
            /\ pend' = Tail(pend)
            /\ UNCHANGED txn
       ELSE /\ txn' = <<[tiles |-> dbTiles, player |-> dbPlayer, sessions |-> dbSessions]>>
            /\ pend' = IF pend[1].op = "addSession"
                       THEN MoveOn("INSERT sessions",
                                [pend[1].locals EXCEPT
                                    !.nextXp = xp + pend[1].locals.xpGain,
                                    !.nextPools = [k \in ResourceKeys |->
                                                     pools[k] + pend[1].locals.delta[k]]])
                       ELSE MoveOn("UPDATE tiles", pend[1].locals)
            /\ UNCHANGED result
    /\ UNCHANGED <<dbTiles, dbPlayer, dbSessions, xp, pools, tiles, sessions, targetTileId>>
    /\ UNCHANGED raceIdle

\* addSession: the session row is inserted
RaceInsertSession ==
    /\ Running("addSession", "INSERT sessions")
    /\ dbSessions' = <<SessionRow(pend[1].locals.session)>> \o dbSessions
    /\ pend' = MoveOn("UPDATE player", pend[1].locals)
    /\ UNCHANGED <<dbTiles, dbPlayer, xp, pools, tiles, sessions, targetTileId, result, txn>>
    /\ UNCHANGED raceIdle

\* addSession: the player row is written, or the engine rejects the statement
\* and the catch block sends ROLLBACK
RaceSessionPlayer ==
    \E fail \in FailPoints :
        /\ Running("addSession", "UPDATE player")
        /\ IF fail = "UPDATE player"
           THEN /\ pend' = MoveOn("ROLLBACK", pend[1].locals)
                /\ UNCHANGED dbPlayer
           ELSE /\ dbPlayer' = [i \in 1..Len(dbPlayer) |->
                                  [dbPlayer[i] EXCEPT
                                      !.xp = pend[1].locals.nextXp,
                                      !.craft = pend[1].locals.nextPools.craft,
                                      !.lore = pend[1].locals.nextPools.lore,
                                      !.vigor = pend[1].locals.nextPools.vigor,
                                      !.clarity = pend[1].locals.nextPools.clarity,
                                      !.gold = pend[1].locals.nextPools.gold]]
                /\ pend' = MoveOn("COMMIT", pend[1].locals)
        /\ UNCHANGED <<dbTiles, dbSessions, xp, pools, tiles, sessions, targetTileId, result,
                       txn>>
        /\ UNCHANGED raceIdle

\* spendResourceOnTile: level and progress of the tile are written
RaceSpendTile ==
    /\ Running("spend", "UPDATE tiles")
    /\ dbTiles' = SpendNextRows(dbTiles, pend[1].locals.updated, FALSE)
    /\ pend' = MoveOn("UPDATE player", pend[1].locals)
    /\ UNCHANGED <<dbPlayer, dbSessions, xp, pools, tiles, sessions, targetTileId, result,
                   txn>>
    /\ UNCHANGED raceIdle

\* spendResourceOnTile: the pool is written, or the engine rejects the
\* statement and the catch block sends ROLLBACK
RaceSpendPlayer ==
    \E fail \in FailPoints :
        /\ Running("spend", "UPDATE player")
        /\ IF fail = "UPDATE player"
           THEN /\ pend' = MoveOn("ROLLBACK", pend[1].locals)
                /\ UNCHANGED dbPlayer
           ELSE /\ dbPlayer' = [i \in 1..Len(dbPlayer) |->
                                  [dbPlayer[i] EXCEPT
                                      ![pend[1].locals.resource] = pend[1].locals.nextPool]]
                /\ pend' = MoveOn(IF pend[1].locals.gateOpenedNow THEN "UPDATE locked"
                                  ELSE "COMMIT", pend[1].locals)
        /\ UNCHANGED <<dbTiles, dbSessions, xp, pools, tiles, sessions, targetTileId, result,
                       txn>>
        /\ UNCHANGED raceIdle

\* spendResourceOnTile: applyGateUnlock(run)
RaceSpendUnlock ==
    /\ Running("spend", "UPDATE locked")
    /\ dbTiles' = ClearDepthsLock(dbTiles)
    /\ pend' = MoveOn("COMMIT", pend[1].locals)
    /\ UNCHANGED <<dbPlayer, dbSessions, xp, pools, tiles, sessions, targetTileId, result,
                   txn>>
    /\ UNCHANGED raceIdle

\* setTargetTile: the player row is written in whatever transaction is open,
\* then set({ targetTileId })
RaceTargetWrite ==
    /\ Running("setTargetTile", "UPDATE player")
    /\ dbPlayer' = [i \in 1..Len(dbPlayer) |->
                      [dbPlayer[i] EXCEPT !.targetTileId = pend[1].locals.tileId]]
    /\ targetTileId' = pend[1].locals.tileId
    /\ result' = Outcome("setTargetTile", TRUE, "", FALSE, FALSE, pend[1].sent)
    /\ pend' = Tail(pend)
    /\ UNCHANGED <<dbTiles, dbSessions, xp, pools, tiles, sessions, txn>>
    /\ UNCHANGED raceIdle

\* COMMIT runs and the call updates the store: addSession from the values it
\* read after BEGIN, spendResourceOnTile from the tiles and the pool it read
\* before BEGIN
RaceCommit ==
    /\ pend # <<>>
    /\ pend[1].at = "COMMIT"
    /\ txn # <<>>
    /\ txn' = <<>>
    /\ pend' = Tail(pend)
    /\ IF pend[1].op = "addSession"
       THEN /\ xp' = pend[1].locals.nextXp
            /\ pools' = pend[1].locals.nextPools
            /\ sessions' = <<pend[1].locals.session>> \o sessions
            /\ result' = Outcome("addSession", TRUE, "", FALSE, FALSE, pend[1].sent)
            /\ UNCHANGED tiles
       ELSE /\ tiles' = SpendNextTiles(pend[1].locals.tiles, pend[1].locals.updated,
                                       pend[1].locals.gateOpenedNow)
            /\ pools' = [pools EXCEPT ![pend[1].locals.resource] = pend[1].locals.nextPool]
            /\ result' = Outcome("spend", TRUE, "", pend[1].locals.unlockedNow, FALSE,
                                 pend[1].sent)
            /\ UNCHANGED <<xp, sessions>>
    /\ UNCHANGED <<dbTiles, dbPlayer, dbSessions, targetTileId>>
    /\ UNCHANGED raceIdle

\* ROLLBACK runs: the tables are what they were at BEGIN, whoever wrote to
\* them since, and the call rethrows
RaceRollback ==
    /\ pend # <<>>
    /\ pend[1].at = "ROLLBACK"
    /\ txn # <<>>
    /\ dbTiles' = txn[1].tiles
    /\ dbPlayer' = txn[1].player
    /\ dbSessions' = txn[1].sessions
    /\ txn' = <<>>
    /\ pend' = Tail(pend)
    /\ result' = Outcome(pend[1].op, FALSE, "", FALSE, TRUE, pend[1].sent)
    /\ UNCHANGED <<xp, pools, tiles, sessions, targetTileId>>
    /\ UNCHANGED raceIdle

\* the store is initialised once, before any call is made
RaceInit == ~isReady /\ pend = <<>> /\ init /\ UNCHANGED <<timerVars, txn>>

NextRace ==
    \/ RaceInit
    \/ RaceSessionCall \/ RaceSpendCall \/ RaceTargetCall
    \/ RaceBegin \/ RaceInsertSession \/ RaceSessionPlayer
    \/ RaceSpendTile \/ RaceSpendPlayer \/ RaceSpendUnlock
    \/ RaceTargetWrite \/ RaceCommit \/ RaceRollback

SpecRace == Init /\ [][NextRace]_vars

(***************************************************************************)
(* The start anchor and the reasons on tile lists of their own: up to four *)
(* tiles, in either order, each one open, sealed, void or of the depths,   *)
(* as seed, sync and gate unlock can leave them; then one spend.           *)
(***************************************************************************)
PickCells == <<<<3, 3>>, <<1, 0>>, <<3, 0>>, <<2, 1>>>>

PickKinds == {"open", "river", "sealed", "void", "heart", "depths", "opened_depths", "absent"}

\* which tiles are at level 1: none, all, or the first and the third
PickLevels == {"none", "all", "odd"}

PickTile(k, kind, lvl) ==
    LET region == CASE kind \in {"open", "sealed"} -> "mountains_doubt"
                    [] kind = "river" -> "river_despair"
                    [] kind \in {"void", "heart"} -> "void_heart"
                    [] OTHER -> "great_depths"
    IN [id |-> PickCells[k], row |-> PickCells[k][1], col |-> PickCells[k][2],
        region |-> region, level |-> lvl,
        progress |-> totalRequiredForLevel(lvl, region),
        feature |-> IF kind = "void" THEN "void"
                    ELSE IF kind = "heart" THEN "black_star" ELSE "none",
        locked |-> IF kind \in {"sealed", "void", "heart", "depths"} THEN 1 ELSE 0]

PickTiles(kinds, levels, reversed) ==
    LET lvl(k) == IF levels = "all" \/ (levels = "odd" /\ k % 2 = 1) THEN 1 ELSE 0
        all == [k \in 1..Len(PickCells) |->
                   PickTile(IF reversed THEN Len(PickCells) + 1 - k ELSE k,
                            kinds[IF reversed THEN Len(PickCells) + 1 - k ELSE k],
                            lvl(IF reversed THEN Len(PickCells) + 1 - k ELSE k))]
        present == SelectSeq([k \in 1..Len(PickCells) |-> k],
                             LAMBDA k : kinds[IF reversed THEN Len(PickCells) + 1 - k ELSE k]
                                        # "absent")
    IN [j \in 1..Len(present) |-> all[present[j]]]

PickPools == [ZeroPools EXCEPT !.craft = 60]

InitPick ==
    /\ layoutVer = 1
    /\ \E kinds \in [1..Len(PickCells) -> PickKinds], levels \in PickLevels,
          reversed \in BOOLEAN :
          /\ tiles = PickTiles(kinds, levels, reversed)
          /\ dbTiles = tiles
    /\ dbPlayer = <<[NewPlayerRow EXCEPT !.craft = 60]>>
    /\ dbSessions = <<>>
    /\ isReady = TRUE
    /\ xp = 0
    /\ pools = PickPools
    /\ sessions = <<>>
    /\ targetTileId = NullId
    /\ result = [op |-> "none"]
    /\ TimerInit
    /\ txn = <<>>

\* init's bootstrap asks for the start anchor; the map asks for each tile's reason
QueryStart ==
    /\ result.op = "none"
    /\ result' = [op |-> "pickStartAnchorId",
                  id |-> pickStartAnchorId(tiles),
                  reasons |-> [id \in {t.id : t \in TileSet(tiles)} |->
                                  investabilityReason(ById(tiles, id)[1], tiles)]]
    /\ UNCHANGED <<layoutVer, dbTiles, dbPlayer, dbSessions, isReady, xp, pools, tiles,
                   sessions, targetTileId>>
    /\ UNCHANGED <<timerVars, txn>>

PickSpend ==
    /\ result.op = "pickStartAnchorId"
    /\ \E k \in 1..Len(PickCells) :
          spendResourceOnTile(PickCells[k], "craft", 60, "none")
    /\ UNCHANGED <<timerVars, txn>>

NextPick == QueryStart \/ PickSpend

SpecPick == InitPick /\ [][NextPick]_vars

(***************************************************************************)
(* Helpers of the properties: the tile of an id before and after a step.   *)
(***************************************************************************)
AllIds == {t.id : t \in TileSet(dbTiles) \cup TileSet(tiles)}

StoredOk(t) == t.level = computeLevelFromTotalMinutes(t.progress, t.region)

\* the tile sets of a state: the tiles table and the store's list
GateTiles(ts) == {t \in TileSet(ts) : t.feature = "gate"}

(***************************************************************************)
(* C1  Level is a function of progress.                                    *)
(***************************************************************************)
\* C1: in every reachable state every tile, in the tiles table and in the
\* store, has level = computeLevelFromTotalMinutes(progress, region), the level
\* the cumulative thresholds of its own region give its progress.
C1_LevelIsFunctionOfProgress ==
    \A t \in TileSet(dbTiles) \cup TileSet(tiles) : StoredOk(t)

\* a spend left the gate tile below its threshold of 72 and the store agrees
C1_GateBelowThreshold ==
    \E t \in GateTiles(tiles) : t.progress = 60 /\ t.level = 0 /\ result.op = "spend"

(***************************************************************************)
(* C2  A lock is cleared only when a gate tile reaches level 1.            *)
(***************************************************************************)
\* the tile of this id had locked 1 in ts and has locked 0 in us
LockCleared(ts, us, id) ==
    /\ ById(ts, id) # <<>> /\ ById(us, id) # <<>>
    /\ ById(ts, id)[1].locked = 1 /\ ById(us, id)[1].locked = 0

\* a tile with feature gate is below level 1 in ts and at level >= 1 in us
GateReachedLevelOne(ts, us) ==
    \E g \in GateTiles(us) :
        /\ g.level >= 1
        /\ ById(ts, g.id) # <<>> /\ ById(ts, g.id)[1].level < 1

\* C2: a step changes a tile's locked flag from 1 to 0, in the tiles table or
\* in the store, only if it is the Gate-unlock procedure: a spend that went
\* through and took a tile with feature gate from level 0 to level >= 1.  No
\* other operation (init with initDb, seeding and layout sync, addSession,
\* setTargetTile, a spend on a tile that is not a gate) clears a lock.
C2_LockClearedOnlyByGateUnlock ==
    [][\A id \in AllIds :
         /\ LockCleared(dbTiles, dbTiles', id)
              => /\ result'.op = "spend" /\ result'.ok
                 /\ GateReachedLevelOne(dbTiles, dbTiles')
         /\ LockCleared(tiles, tiles', id)
              => /\ result'.op = "spend" /\ result'.ok
                 /\ GateReachedLevelOne(tiles, tiles')]_vars

\* a spend raised the gate tile to level 1 and the locks of great_depths went
C2_GateSpendClearedLock ==
    /\ result.op = "spend" /\ result.ok /\ result.unlockedNow
    /\ \E g \in GateTiles(tiles) : g.level >= 1
    /\ \E t \in TileSet(dbTiles) : t.region = "great_depths" /\ t.locked = 0
    /\ \E t \in TileSet(tiles) : t.region = "great_depths" /\ t.locked = 0

(***************************************************************************)
(* The words of the properties, stated on the fields of a tile.            *)
(***************************************************************************)
VoidTile(t) == t.feature = "void" \/ t.region = "void_heart"

HardLockedTile(t) == t.locked = 1 \/ VoidTile(t)

ConqueredTile(t) == t.level >= 1 /\ ~HardLockedTile(t)

Abs(n) == IF n >= 0 THEN n ELSE 0 - n

\* b stands on one of the 8 king-move neighbour positions of a
KingMove(a, b) ==
    /\ Abs(a.row - b.row) <= 1 /\ Abs(a.col - b.col) <= 1
    /\ (a.row # b.row \/ a.col # b.col)

NextToConquered(t, ts) == \E n \in TileSet(ts) : KingMove(t, n) /\ ConqueredTile(n)

Investable(t, ts) ==
    ConqueredTile(t) \/ (t.level = 0 /\ ~HardLockedTile(t) /\ NextToConquered(t, ts))

\* level or progress of the tile of t's id differs in us
Touched(t, us) ==
    \E u \in TileSet(us) : u.id = t.id /\ (u.level # t.level \/ u.progress # t.progress)

NothingChanged ==
    UNCHANGED <<layoutVer, dbTiles, dbPlayer, dbSessions, isReady, xp, pools, tiles,
                sessions, targetTileId>>

(***************************************************************************)
(* C3  Void tiles stay out of reach.                                       *)
(***************************************************************************)
\* C3: a tile with feature void or region void_heart is hard-locked for good:
\* in every state canInvest is false for it and every spend that targets it
\* is refused, and no step (gate unlock and layout sync included) changes
\* its level or progress or makes it anything but a void tile.
C3_VoidNeverInvestable ==
    /\ [](\A t \in TileSet(tiles) :
            VoidTile(t) =>
              /\ isHardLocked(t) /\ ~canInvest(t, tiles)
              /\ \A r \in SpendableResources, m \in SpendMinutes :
                   SpendRefusal(t.id, r, m) # "")
    /\ [][/\ \A t \in TileSet(tiles) : VoidTile(t) => ~Touched(t, tiles')
          /\ \A t \in TileSet(dbTiles) :
               VoidTile(t) => /\ ~Touched(t, dbTiles')
                              /\ \A u \in TileSet(dbTiles') : u.id = t.id => VoidTile(u)]_vars

\* after the gate was opened and the layout grew, a spend on a void tile
\* was refused for being void
C3_SpendOnVoidRefused ==
    /\ result.op = "spend" /\ ~result.ok /\ result.reason = "void"
    /\ layoutVer = 2 /\ hasOpenedGate(tiles)
    /\ \E t \in TileSet(tiles) : t.feature = "void" /\ t.progress = 0

(***************************************************************************)
(* C4  canInvest is the single gate for investment.                        *)
(***************************************************************************)
\* C4: in a spendResourceOnTile step a tile's level or progress changes, in
\* the store or in the tiles table, only if the tile was investable in the
\* state the call started from: conquered, or at level 0, not hard-locked
\* and next to a conquered tile.  A hard-locked or unreachable tile gains
\* nothing.
C4_ProgressOnlyWhereInvestable ==
    [][result'.op = "spend" =>
         /\ \A t \in TileSet(tiles) : Touched(t, tiles') => Investable(t, tiles)
         /\ \A t \in TileSet(dbTiles) :
              Touched(t, dbTiles') =>
                ById(tiles, t.id) # <<>> /\ Investable(ById(tiles, t.id)[1], tiles)]_vars

\* a spend went through while a tile that is not hard-locked has no conquered
\* neighbour and has gained nothing
C4_UnreachableStillUntouched ==
    /\ result.op = "spend" /\ result.ok
    /\ \E t \in TileSet(tiles) :
         /\ t.level = 0 /\ t.progress = 0
         /\ ~HardLockedTile(t) /\ ~NextToConquered(t, tiles)

(***************************************************************************)
(* C5  A refused spend changes nothing.                                    *)
(***************************************************************************)
\* one of the five preconditions of a spend does not hold
PreconditionFails(tileId, resource, minutes) ==
    \/ pools[resource] < minutes
    \/ ById(tiles, tileId) = <<>>
    \/ LET t == ById(tiles, tileId)[1]
       IN \/ ~Investable(t, tiles)
          \/ t.level >= MAX_LEVEL
          \/ ACTIVITY_FOR_RESOURCE(resource) \notin allowedActivitiesForRegion(t.region)

\* C5: a spendResourceOnTile of which a precondition fails is refused: it
\* returns ok false with a reason and does not throw, it issues no statement
\* (no BEGIN, no write), and pools, xp, target tile and every tile's level,
\* progress and locked flag are as before, in the tables and in the store.
C5_RefusedSpendChangesNothing ==
    /\ [](isReady =>
            \A id \in TileIdInputs, r \in SpendableResources, m \in SpendMinutes :
                PreconditionFails(id, r, m) => SpendRefusal(id, r, m) # "")
    /\ [][(result'.op = "spend" /\ result'.reason # "") =>
            /\ ~result'.ok /\ ~result'.threw /\ result'.stmts = <<>>
            /\ NothingChanged]_vars

\* a spend on a tile at MAX_LEVEL was refused and the pool is still there
C5_SpendOnMaxedRefused ==
    /\ result.op = "spend" /\ ~result.ok /\ result.reason = "maxed"
    /\ \E t \in TileSet(tiles) : t.level = MAX_LEVEL
    /\ \E r \in SpendableResources : pools[r] >= 60

(***************************************************************************)
(* C6  Pools never go negative.                                            *)
(***************************************************************************)
\* C6: in every state each of the five pools is a non-negative integer, in
\* the player row and in the store, and a spend of more than the pool holds
\* is refused and changes nothing.
C6_PoolsNeverNegative ==
    /\ [](/\ \A k \in ResourceKeys : pools[k] \in Nat
          /\ \A i \in 1..Len(dbPlayer) : \A k \in ResourceKeys : dbPlayer[i][k] \in Nat)
    /\ [](isReady =>
            \A id \in TileIdInputs, r \in SpendableResources, m \in SpendMinutes :
                m > pools[r] => SpendRefusal(id, r, m) = "not_enough")
    /\ [][(result'.op = "spend" /\ result'.reason = "not_enough") => NothingChanged]_vars

\* a spend of more than the pool held was refused; the pool holds 60
C6_OverspendRefused ==
    /\ result.op = "spend" /\ ~result.ok /\ result.reason = "not_enough"
    /\ \E r \in SpendableResources : pools[r] = 60

(***************************************************************************)
(* C7  The order of the preconditions.                                     *)
(***************************************************************************)
\* the first precondition, (a) to (e), that fails; "none" when all hold
FirstFailure(tileId, resource, minutes) ==
    IF pools[resource] < minutes THEN "a"
    ELSE IF ById(tiles, tileId) = <<>> THEN "b"
    ELSE LET t == ById(tiles, tileId)[1]
         IN IF ~Investable(t, tiles) THEN "c"
            ELSE IF t.level >= MAX_LEVEL THEN "d"
            ELSE IF ACTIVITY_FOR_RESOURCE(resource) \notin allowedActivitiesForRegion(t.region)
                 THEN "e"
            ELSE "none"

\* the precondition a reason speaks of
PreconditionOf(reason) ==
    CASE reason = "not_enough" -> "a"
      [] reason = "unknown_tile" -> "b"
      [] reason \in {"void", "sealed_great_depths", "sealed", "not_reachable"} -> "c"
      [] reason = "maxed" -> "d"
      [] reason = "realm_mismatch" -> "e"
      [] reason = "" -> "none"
      [] OTHER -> "other"

Invested(ts, us, id, n) ==
    /\ ById(ts, id) # <<>> /\ ById(us, id) # <<>>
    /\ ById(us, id)[1].progress = ById(ts, id)[1].progress + n
    /\ ById(us, id)[1].level =
         computeLevelFromTotalMinutes(ById(us, id)[1].progress, ById(us, id)[1].region)
    /\ \A t \in TileSet(ts) : t.id # id => ~Touched(t, us)

\* C8: a spend that goes through takes n from exactly the pool spent and
\* adds n to the progress of exactly the tile spent on, whose level is
\* recomputed; no other pool, no xp and no other tile's level or progress
\* changes, in the store and in the tables; unlockedNow is true exactly if
\* the tile went from level 0 to level >= 1.
C8_SuccessfulSpendEffect ==
    [][(result'.op = "spend" /\ result'.ok) =>
         \E id \in AllIds, r \in SpendableResources, n \in SpendMinutes :
            /\ pools' = [pools EXCEPT ![r] = pools[r] - n]
            /\ dbPlayer' = <<[dbPlayer[1] EXCEPT ![r] = dbPlayer[1][r] - n]>>
            /\ xp' = xp
            /\ Invested(tiles, tiles', id, n)
            /\ Invested(dbTiles, dbTiles', id, n)
            /\ result'.unlockedNow <=>
                 (ById(tiles, id)[1].level = 0 /\ ById(tiles', id)[1].level >= 1)]_vars

\* a spend took a conquered tile to a higher level: no unlock is reported
C8_LevelUpWithoutUnlock ==
    /\ result.op = "spend" /\ result.ok /\ ~result.unlockedNow
    /\ \E t \in TileSet(tiles) : t.level >= 2

(***************************************************************************)
(* C9  The gate unlock is part of the spend.                               *)
(***************************************************************************)
\* the statements of one transaction that holds the tile update, the pool
\* update and the unlock, in this order
OneTransaction(stmts) ==
    stmts = <<"BEGIN", "UPDATE tiles", "UPDATE player", "UPDATE locked", "COMMIT">>

\* C9: a spend that takes a gate tile from level 0 to >= 1 clears the locked
\* flag of every great_depths tile inside the transaction of the tile and
\* pool update, and in the store's tiles too, so that right after the call
\* isHardLocked is false of them; a spend whose transaction is rolled back
\* leaves tile, pool and locks as they were.
C9_GateUnlockWithinSpend ==
    [][/\ (result'.op = "spend" /\ result'.ok
           /\ \E g \in GateTiles(tiles) : g.level = 0 /\ Touched(g, tiles')
                                          /\ ById(tiles', g.id)[1].level >= 1)
          => /\ OneTransaction(result'.stmts)
             /\ \A t \in TileSet(dbTiles') : t.region = "great_depths" => t.locked = 0
             /\ \A t \in TileSet(tiles') :
                  t.region = "great_depths" => t.locked = 0 /\ ~isHardLocked(t)
       /\ (result'.op = "spend" /\ result'.threw)
          => /\ NothingChanged
             /\ result'.stmts[Len(result'.stmts)] = "ROLLBACK"]_vars

\* right after the spend that opened the gate a great_depths tile is
\* investable in the store
C9_DepthsInvestableAfterGate ==
    /\ result.op = "spend" /\ result.ok /\ result.unlockedNow
    /\ OneTransaction(result.stmts)
    /\ \E t \in TileSet(tiles) :
         t.region = "great_depths" /\ t.level = 0 /\ canInvest(t, tiles)

(***************************************************************************)
(* C10  Frontier means a conquered king-move neighbour.                    *)
(***************************************************************************)
\* C10: in every tile list, a tile at level 0 is frontier exactly if it is
\* not hard-locked and one of its 8 king-move neighbour positions holds a
\* tile of the list with level >= 1 that is not hard-locked; a level-0 tile
\* that is not hard-locked and has no such neighbour is unreachable and
\* canInvest is false of it.  Positions without a tile count as not
\* conquered, and the query of the investable ids answers for every list.
C10_FrontierIffConqueredNeighbour ==
    /\ \A t \in TileSet(tiles) :
         t.level = 0 =>
           /\ isFrontier(t, tiles) <=> (~HardLockedTile(t) /\ NextToConquered(t, tiles))
           /\ (~HardLockedTile(t) /\ ~NextToConquered(t, tiles))
                => /\ ~canInvest(t, tiles)
                   /\ investabilityReason(t, tiles) = "not_reachable"
    /\ result.op = "computeInvestableIds"
         => /\ result.ids = {t.id : t \in {u \in TileSet(tiles) : Investable(u, tiles)}}
            /\ DOMAIN result.reasons = {t.id : t \in TileSet(tiles)}

\* the 3x3 grid with only its centre conquered and nothing hard-locked: the
\* query found the nine tiles of the grid investable and the tenth not
C10_FrontierExpansion ==
    /\ result.op = "computeInvestableIds"
    /\ Len(tiles) = Len(AdjCells)
    /\ \A t \in TileSet(tiles) : ~HardLockedTile(t) /\ (t.level = 1 <=> t.id = <<1, 1>>)
    /\ result.ids = {AdjCells[k] : k \in 1..9}
    /\ result.reasons[<<1, 3>>] = "not_reachable"
    /\ \A k \in 1..9 : k # 5 => isFrontier(ById(tiles, AdjCells[k])[1], tiles)

(***************************************************************************)
(* C11  Progress and level only grow.                                      *)
(***************************************************************************)
\* the level whose cumulative threshold the progress has reached and whose
\* next threshold, if there is one, it has not
LevelFromProgress(p, region) ==
    CHOOSE L \in 0..MAX_LEVEL :
        /\ totalRequiredForLevel(L, region) <= p
        /\ L = MAX_LEVEL \/ totalRequiredForLevel(L + 1, region) > p

\* C11: over every sequence of applyMinutes calls with non-negative minutes
\* on a tile, each call leaves progress no smaller than it was (it adds the
\* minutes), leaves level no smaller than it was, and leaves level equal to
\* the level the tile's region gives the new progress.
C11_ProgressAndLevelMonotonic ==
    [][result'.op = "applyMinutes" =>
         /\ tiles'[1].progress >= tiles[1].progress
         /\ tiles'[1].progress = tiles[1].progress + result'.add
         /\ tiles'[1].level >= tiles[1].level
         /\ tiles'[1].level = LevelFromProgress(tiles'[1].progress, tiles'[1].region)
         /\ tiles'[1].region = tiles[1].region]_vars

\* a call that added nothing to a tile standing at level 2
C11_ZeroMinutesAtLevelTwo ==
    /\ result.op = "applyMinutes" /\ result.add = 0
    /\ tiles[1].level = 2 /\ tiles[1].region = "great_depths"

(***************************************************************************)
(* C12  The level saturates, the progress does not.                        *)
(***************************************************************************)
\* C12: applyMinutes never yields a level above MAX_LEVEL whatever it adds,
\* while progress takes the full minutes; tileProgressRatio is exactly 1 of a
\* tile at MAX_LEVEL and lies in [0, 1] of any other.
C12_LevelSaturates ==
    /\ [](\A t \in TileSet(tiles) :
            LET r == tileProgressRatio(t)
            IN /\ t.level \in 0..MAX_LEVEL
               /\ r[2] > 0 /\ 0 <= r[1] /\ r[1] <= r[2]
               /\ t.level = MAX_LEVEL => r[1] = r[2])
    /\ [][result'.op = "applyMinutes" =>
            /\ tiles'[1].progress = tiles[1].progress + result'.add
            /\ result'.ratio = tileProgressRatio(tiles'[1])]_vars

\* 700 minutes took a tile past its last threshold: level 3, ratio 1,
\* progress above the threshold
C12_ProgressBeyondLastThreshold ==
    /\ result.op = "applyMinutes" /\ result.add = 700 /\ result.ratio = <<1, 1>>
    /\ tiles[1].level = MAX_LEVEL
    /\ tiles[1].progress > totalRequiredForLevel(MAX_LEVEL, tiles[1].region)

(***************************************************************************)
(* C13  The cumulative thresholds.                                         *)
(***************************************************************************)
\* Math.round of 60 * (L + 1) * multiplier, the multiplier in hundredths
RoundedSegment(L, region) == (60 * (L + 1) * regionDifficultyMult(region) + 50) \div 100

\* C13: for every region, totalRequiredForLevel(0) = 0 and for L in
\* 0..MAX_LEVEL-1 totalRequiredForLevel(L+1) = totalRequiredForLevel(L) +
\* segmentNeed(L), where segmentNeed(L) = max(1, round(60 * (L+1) *
\* multiplier)) grows strictly with L; with multiplier 1.0 the segments are
\* 60, 120, 180 and the totals 0, 60, 180, 360.  A tile's progress has reached
\* the total of its level.
C13_CumulativeThresholds ==
    /\ \A t \in TileSet(tiles) : totalRequiredForLevel(t.level, t.region) <= t.progress
    /\ \A region \in RegionTypes :
         /\ totalRequiredForLevel(0, region) = 0
         /\ \A L \in 0..(MAX_LEVEL - 1) :
              /\ totalRequiredForLevel(L + 1, region)
                   = totalRequiredForLevel(L, region) + segmentNeed(L, region)
              /\ segmentNeed(L, region) = Max(1, RoundedSegment(L, region))
              /\ segmentNeed(L + 1, region) > segmentNeed(L, region)
    /\ regionDifficultyMult("mountains_doubt") = 100
    /\ <<segmentNeed(0, "mountains_doubt"), segmentNeed(1, "mountains_doubt"),
         segmentNeed(2, "mountains_doubt")>> = <<60, 120, 180>>
    /\ [L \in 0..MAX_LEVEL |-> totalRequiredForLevel(L, "mountains_doubt")]
         = [L \in 0..MAX_LEVEL |-> IF L = 0 THEN 0 ELSE IF L = 1 THEN 60
                                   ELSE IF L = 2 THEN 180 ELSE 360]

\* a tile of multiplier 1.0 reached level 3 with exactly 360 minutes
C13_MountainTileAtLastThreshold ==
    /\ result.op = "applyMinutes" /\ result.add = 60
    /\ tiles[1].region = "mountains_doubt"
    /\ tiles[1].progress = 360 /\ tiles[1].level = MAX_LEVEL

(***************************************************************************)
(* Claims about the timer store, checked on SpecTimer.                     *)
(***************************************************************************)
\* the timer sessions that are not committed
OpenTimers == {r \in TileSet(dbTimers) : r.status \in {"running", "stopped"}}

\* C14: at any time at most one TimerSession is running or stopped;
\* startSession adds a row only when no running and no stopped row exists.
C14_AtMostOneOpenTimerSession ==
    /\ [](Cardinality(OpenTimers) <= 1)
    /\ [][Len(dbTimers') > Len(dbTimers) => OpenTimers = {}]_vars

\* a stopped session and a later started running one exist side by side
C14_StartedBesideStoppedSession ==
    /\ pend = <<>>
    /\ \E a, b \in OpenTimers :
          a.status = "stopped" /\ b.status = "running" /\ a.id < b.id
    /\ activeSession # <<>> /\ activeSession[1].status = "running"

\* the game.addSession calls made for the timer session id
HandoffsOf(id) == {i \in 1..Len(handoffs) : handoffs[i].id = id}

\* C15: under any sequence or interleaving of timer store calls, addSession is
\* invoked at most once for each TimerSession.
C15_OneHandoffPerTimerSession ==
    \A i \in 1..Len(handoffs) : HandoffsOf(handoffs[i].id) = {i}

\* a stopped session was committed by two overlapping commitSession calls, and
\* both calls logged a Session
C15_TwoSessionsFromOneTimer ==
    /\ Len(dbTimers) = 1 /\ dbTimers[1].status = "committed"
    /\ Cardinality(HandoffsOf(dbTimers[1].id)) = 2
    /\ Len(dbSessions) = 2

\* the Session row a handoff is to persist
SessionOf(h) ==
    [activity |-> normalizeActivity(h.activity), minutes |-> h.minutes, amount |-> <<>>,
     tileId |-> NullId]

\* the step is commitSession calling game.addSession and returning ok
HandsOff == Len(handoffs') = Len(handoffs) + 1

\* C16: every commitSession that returns ok persists exactly one Session row with
\* the timer's activity and computed minutes, and a committed timer session whose
\* commit has returned has a Session.
C16_CommitPersistsOneSession ==
    /\ [][HandsOff =>
            dbSessions' = <<SessionOf(handoffs'[Len(handoffs')])>> \o dbSessions]_vars
    /\ [](\A r \in TileSet(dbTimers) :
             r.status = "committed" /\ (\A i \in 1..Len(pend) : pend[i].op # "commit")
                 => Len(dbSessions) >= 1)

\* the session is committed and its commit has returned, yet no Session exists
C16_CommittedWithoutSession ==
    /\ pend = <<>>
    /\ Len(dbTimers) = 1 /\ dbTimers[1].status = "committed"
    /\ activeSession = <<>>
    /\ Len(handoffs) = 1
    /\ dbSessions = <<>> /\ sessions = <<>> /\ xp = 0
    /\ result.op = "addSession" /\ result.threw

\* C17: once a TimerSession is committed, no later step changes or deletes its
\* row, and it never becomes the store's activeSession again.
C17_CommittedIsTerminal ==
    [][\A r \in TileSet(dbTimers) :
          r.status = "committed" =>
              /\ r \in TileSet(dbTimers')
              /\ activeSession' # activeSession =>
                     activeSession' = <<>> \/ activeSession'[1].id # r.id]_vars

\* a session that was committed and handed to the game store is running again
\* and is the store's activeSession
C17_CommittedSessionRunsAgain ==
    /\ pend = <<>>
    /\ activeSession # <<>>
    /\ activeSession[1].status = "running"
    /\ activeSession[1] \in TileSet(dbTimers)
    /\ HandoffsOf(activeSession[1].id) # {}

\* the step is discardSession sending its DELETE
DiscardCalled ==
    /\ Len(pend') = Len(pend) + 1
    /\ pend'[Len(pend')].op = "discard"

\* the step is discardSession going on after its DELETE
DiscardReturned == HeadIs("discard", 1) /\ pend' = Tail(pend)

\* C18: discardSession deletes the active TimerSession's row and sets activeSession
\* to null; no step of it adds a Session, changes xp or a pool, or calls the game
\* store; rows are deleted only while a session is active.
C18_DiscardNeverTouchesGame ==
    [][/\ DiscardCalled =>
            /\ activeSession # <<>>
            /\ dbTimers' = SelectSeq(dbTimers, LAMBDA r : r.id # activeSession[1].id)
            /\ UNCHANGED <<dbSessions, dbPlayer, dbTiles, sessions, xp, pools, handoffs>>
       /\ DiscardReturned =>
            /\ activeSession' = <<>>
            /\ UNCHANGED <<dbTimers, dbSessions, dbPlayer, dbTiles, sessions, xp, pools,
                           handoffs>>
       /\ Len(dbTimers') < Len(dbTimers) => DiscardCalled]_vars

\* one session was committed and logged, a second one was discarded
C18_SecondSessionDiscarded ==
    /\ pend = <<>>
    /\ activeSession = <<>>
    /\ nextTimerId = 3
    /\ Len(dbTimers) = 1 /\ dbTimers[1].id = 1 /\ dbTimers[1].status = "committed"
    /\ Len(dbSessions) = 1 /\ Len(handoffs) = 1
    /\ xp = dbSessions[1].minutes

\* the status changes a TimerSession may make
AllowedTransition(r, n) ==
    \/ r.status = "running" /\ n.status = "stopped"
    \/ r.status = "stopped" /\ n.status = "running" /\ n.stoppedAt = <<>>
    \/ r.status = "stopped" /\ n.status = "committed"

\* C19: a TimerSession is created running, and its status changes only
\* running -> stopped, stopped -> running (stoppedAt cleared) and
\* stopped -> committed; a running session is never committed.
C19_StatusTransitions ==
    [][/\ \A r \in TileSet(dbTimers), n \in TileSet(dbTimers') :
             r.id = n.id /\ r.status # n.status => AllowedTransition(r, n)
       /\ \A n \in TileSet(dbTimers') :
             (\A r \in TileSet(dbTimers) : r.id # n.id) => n.status = "running"]_vars

\* commitSession, called on a running session, has written committed to its row
C19_RunningSessionCommitted ==
    /\ Len(pend) = 1
    /\ pend[1].op = "commit"
    /\ pend[1].session[1].status = "running"
    /\ \E r \in TileSet(dbTimers) :
          r.id = pend[1].session[1].id /\ r.status = "committed" /\ r.stoppedAt = <<now>>

\* max(1, round(ms / 60000)), halves rounded up
MinutesOfMs(ms) ==
    LET whole == ms \div 60000
        rest == ms % 60000
    IN Max(1, IF rest >= 30000 THEN whole + 1 ELSE whole)

\* the step is commitSession computing its minutes and sending its UPDATE
CommitCalled ==
    /\ Len(pend') = Len(pend) + 1
    /\ pend'[Len(pend')].op = "commit"

\* C20: commitSession on a stopped session computes
\* max(1, round((stoppedAt - startedAt) / 60000)) from the time the session was
\* stopped, whatever endsAt is, writes that stoppedAt, and hands these minutes to
\* addSession: 70 minutes give 70, under 30 seconds give 1.
C20_MinutesFromStopTime ==
    [][/\ CommitCalled /\ activeSession[1].status = "stopped" =>
            LET cur == activeSession[1]
                elapsed == cur.stoppedAt[1] - cur.startedAt
                called == pend'[Len(pend')]
            IN /\ called.minutes = MinutesOfMs(elapsed)
               /\ elapsed = 70 * 60000 => called.minutes = 70
               /\ elapsed < 30000 => called.minutes = 1
               /\ elapsed = 90000 => called.minutes = 2
               /\ \A r \in TileSet(dbTimers') :
                     r.id = cur.id => r.stoppedAt = cur.stoppedAt /\ r.endsAt = cur.endsAt
       /\ HandsOff =>
            /\ handoffs'[Len(handoffs')].minutes = pend[1].minutes
            /\ handoffs'[Len(handoffs')].activity = pend[1].session[1].activity
            /\ result'.ok => dbSessions'[1].minutes = pend[1].minutes]_vars

\* a 25-minute countdown, stopped 70 minutes after its start and then committed,
\* was logged with 70 minutes
C20_CountdownOverrunCommitted ==
    /\ pend = <<>>
    /\ Len(dbTimers) = 1 /\ Len(handoffs) = 1 /\ Len(dbSessions) = 1
    /\ dbTimers[1].status = "committed"
    /\ dbTimers[1].mode = "countdown"
    /\ dbTimers[1].endsAt = <<dbTimers[1].startedAt + 25 * 60000>>
    /\ dbTimers[1].stoppedAt = <<dbTimers[1].startedAt + 70 * 60000>>
    /\ handoffs[1].minutes = 70
    /\ dbSessions[1].minutes = 70

(***************************************************************************)
(* Claims about the session log, checked on SpecLog.                       *)
(***************************************************************************)
\* the activities that log time
TimeBased(activity) == activity # "income"

\* the persisted rows and the store are what they were
NoWrites ==
    UNCHANGED <<dbSessions, dbPlayer, dbTiles, xp, pools, tiles, sessions, targetTileId>>

\* C21: addSession refuses with a validation error and writes nothing unless an
\* income session carries a positive amount (the minutes of a timed activity are
\* clamped to at least 1, so they always resolve to a positive integer); every
\* session it records for a timed activity has minutes >= 1.
C21_InvalidSessionRefused ==
    /\ [](/\ \A i \in 1..Len(dbSessions) :
               IF TimeBased(dbSessions[i].activity)
               THEN dbSessions[i].minutes >= 1
               ELSE dbSessions[i].amount # <<>> /\ dbSessions[i].amount[1] >= 1
           /\ isReady =>
                 \A inp \in LogInputs :
                     SessionRefusal(inp[1], inp[3]) # ""
                         <=> /\ ~TimeBased(normalizeActivity(inp[1]))
                             /\ (inp[3] = <<>> \/ inp[3][1] < 1))
    /\ [][result'.op = "addSession" /\ ~result'.ok /\ ~result'.threw
              => result'.reason # "" /\ result'.stmts = <<>> /\ NoWrites]_vars

\* an income session without a positive amount was refused after a session of
\* zero minutes had been recorded with 1 minute
C21_IncomeWithoutAmountRefused ==
    /\ result.op = "addSession" /\ ~result.ok /\ result.reason = "income_needs_amount"
    /\ Len(dbSessions) = 1
    /\ dbSessions[1].activity = "habit" /\ dbSessions[1].minutes = 1

\* the pool a core activity fills
PoolOf(activity) ==
    CASE activity = "work" -> "craft"
      [] activity = "study" -> "lore"
      [] activity = "sport" -> "vigor"
      [] activity = "mindfulness" -> "clarity"

CoreActivities == {"work", "study", "sport", "mindfulness"}

\* what a recorded session is to add to xp and to each pool
XpGainOf(s) == IF s.activity \in CoreActivities THEN s.minutes ELSE 0

PoolGainOf(s, k) ==
    IF s.activity \in CoreActivities THEN (IF k = PoolOf(s.activity) THEN s.minutes ELSE 0)
    ELSE IF s.activity = "income" /\ k = "gold" THEN s.amount[1]
    ELSE 0

\* the step is an addSession that returned ok
SessionLogged == result'.op = "addSession" /\ result'.ok

\* C22: a successful addSession of a core activity ('meditation' recorded as
\* mindfulness) adds its minutes to xp and to its one pool and to nothing else;
\* income adds its amount to gold and nothing to xp; habit changes neither.
C22_GainsByActivity ==
    [][SessionLogged =>
         LET s == dbSessions'[1]
         IN /\ dbSessions' = <<s>> \o dbSessions
            /\ s.activity # "meditation"
            /\ xp' = xp + XpGainOf(s)
            /\ \A k \in ResourceKeys : pools'[k] = pools[k] + PoolGainOf(s, k)
            /\ s.activity \in CoreActivities =>
                  xp' = xp + s.minutes /\ pools'[PoolOf(s.activity)] = pools[PoolOf(s.activity)] + s.minutes
            /\ s.activity = "income" => xp' = xp /\ pools'.gold = pools.gold + s.amount[1]
            /\ s.activity = "habit" => xp' = xp /\ pools' = pools
            /\ dbPlayer'[1].xp = xp'
            /\ \A k \in ResourceKeys : dbPlayer'[1][k] = pools'[k]
            /\ UNCHANGED <<tiles, dbTiles, targetTileId>>]_vars

\* a habit and an income session were logged: gold is the amount, all else is 0
C22_HabitThenIncome ==
    /\ Len(dbSessions) = 2
    /\ dbSessions[1].activity = "income" /\ dbSessions[2].activity = "habit"
    /\ xp = 0
    /\ pools = [ZeroPools EXCEPT !.gold = 40]

RECURSIVE SumXp(_)
SumXp(ss) == IF ss = <<>> THEN 0 ELSE XpGainOf(Head(ss)) + SumXp(Tail(ss))

RECURSIVE SumGain(_, _)
SumGain(ss, k) == IF ss = <<>> THEN 0 ELSE PoolGainOf(Head(ss), k) + SumGain(Tail(ss), k)

RECURSIVE SumProgress(_)
SumProgress(ts) == IF ts = <<>> THEN 0 ELSE Head(ts).progress + SumProgress(Tail(ts))

\* the minutes invested so far: all progress beyond the bootstrapped start tile
InvestedMinutes(ts) ==
    SumProgress(ts) - totalRequiredForLevel(1, ById(ts, pickStartAnchorId(
        [i \in 1..Len(ts) |-> [ts[i] EXCEPT !.level = 0, !.progress = 0]]))[1].region)

StoreWriteCall == result'.op \in {"addSession", "spend"}

\* C24: when a statement after BEGIN (COMMIT included) of addSession or
\* spendResourceOnTile is rejected, the call sends ROLLBACK as its last
\* statement and throws, and neither the persisted rows nor the store change;
\* the store changes only in a call whose last statement is a successful COMMIT.
C24_FailedTransactionRolledBack ==
    [][StoreWriteCall =>
         /\ result'.threw =>
               /\ ~result'.ok
               /\ NoWrites
               /\ UNCHANGED isReady
               /\ Len(result'.stmts) >= 2 =>
                     /\ result'.stmts[1] = "BEGIN"
                     /\ result'.stmts[Len(result'.stmts)] = "ROLLBACK"
                     /\ \A i \in 1..(Len(result'.stmts) - 1) : result'.stmts[i] # "ROLLBACK"
         /\ ~NoWrites =>
               /\ result'.ok /\ ~result'.threw
               /\ result'.stmts # <<>>
               /\ result'.stmts[Len(result'.stmts)] = "COMMIT"
               /\ \A i \in 1..Len(result'.stmts) : result'.stmts[i] # "ROLLBACK"]_vars

\* a spend whose COMMIT was rejected after an earlier session had been logged
C24_CommitOfSpendRejected ==
    /\ result.op = "spend" /\ result.threw
    /\ Len(result.stmts) >= 4
    /\ result.stmts[Len(result.stmts) - 1] = "COMMIT"
    /\ result.stmts[Len(result.stmts)] = "ROLLBACK"
    /\ Len(dbSessions) = 1

\* the xp column of the player row, 0 while there is no row
PersistedXp(rows) == IF rows = <<>> THEN 0 ELSE rows[1].xp

\* C25: under every sequence of addSession, spendResourceOnTile, setTargetTile
\* and init calls xp never decreases, in the store or in the player row, and it
\* increases only in an addSession call that records a core activity, by that
\* session's minutes.
C25_XpNeverDecreases ==
    [][/\ xp' >= xp
       /\ PersistedXp(dbPlayer') >= PersistedXp(dbPlayer)
       /\ (xp' > xp \/ PersistedXp(dbPlayer') > PersistedXp(dbPlayer)) =>
             /\ result'.op = "addSession" /\ result'.ok
             /\ Len(dbSessions') = Len(dbSessions) + 1
             /\ dbSessions'[1].activity \in CoreActivities
             /\ xp' = xp + dbSessions'[1].minutes
             /\ PersistedXp(dbPlayer') = xp']_vars

\* xp was earned, then a spend, a new target and a reload left it where it was
C25_XpKeptThroughSpendTargetAndInit ==
    /\ isReady
    /\ result.op = "init"
    /\ xp = 90 /\ PersistedXp(dbPlayer) = 90
    /\ targetTileId # NullId
    /\ InvestedMinutes(dbTiles) > 0

\* null, or the id of a tile of ts that is not hard-locked
ValidTarget(ts, id) ==
    id = NullId \/ (ById(ts, id) # <<>> /\ ~isHardLocked(ById(ts, id)[1]))

\* C26: once init has run, through every sequence of setTargetTile and spend
\* calls and across updates of the layout, the target is null or names an
\* existing tile that is not hard-locked, in the store and in the player row;
\* setTargetTile refuses an unknown or hard-locked tile and then changes nothing;
\* init clears a stored target whose tile is hard-locked or gone.
C26_TargetNamesOpenTile ==
    /\ [](isReady =>
            /\ ValidTarget(tiles, targetTileId)
            /\ ValidTarget(dbTiles, dbPlayer[1].targetTileId)
            /\ dbPlayer[1].targetTileId = targetTileId
            /\ \A id \in SyncTargetInputs \cup TargetInputs :
                  ~ValidTarget(tiles, id) => TargetRefused(tiles, id))
    /\ [][/\ (result'.op = "setTargetTile" /\ result'.reason = "ignored") =>
                UNCHANGED <<dbTiles, dbPlayer, dbSessions, tiles, targetTileId, xp, pools>>
          /\ (result'.op = "init" /\ dbPlayer # <<>>
                /\ ~ValidTarget(dbTiles', dbPlayer[1].targetTileId)) =>
                targetTileId' = NullId /\ dbPlayer'[1].targetTileId = NullId]_vars

\* a build sealed the targeted tile, and init has just cleared the target
C26_TargetOfSealedTileCleared ==
    /\ isReady
    /\ result.op = "init"
    /\ \E i \in 1..Len(result.stmts) : result.stmts[i] = "UPDATE player"
    /\ targetTileId = NullId /\ dbPlayer[1].targetTileId = NullId
    /\ \E t \in TileSet(tiles) : isHardLocked(t) /\ t.level = 0 /\ t.id \in SyncTargetInputs

\* the layout's code of the cell a tile id names, and whether it names one
InLayout(layout, id) ==
    id[1] >= 0 /\ id[1] < LayoutRows(layout) /\ id[2] >= 0 /\ id[2] < LayoutCols(layout)

LayoutCode(layout, id) == layout[id[1] + 1][id[2] + 1]

\* the tiles table the sync of the next initDb starts from, and the one it leaves
SyncBefore == TilesBeforeSync(dbTiles, INNER_REALM_LAYOUT)

SyncAfter == syncTiles(SyncBefore, INNER_REALM_LAYOUT)

\* C27: in every init, for each tile the sync finds and the layout holds, the
\* locked flag the sync leaves is max(existing locked, default locked of the
\* tile's layout cell): the sync may seal a tile and never unseals one.
C27_SyncLockIsMax ==
    [][result'.op = "init" =>
         \A t \in TileSet(SyncBefore) :
             InLayout(INNER_REALM_LAYOUT, t.id) =>
                 /\ ById(SyncAfter, t.id) # <<>>
                 /\ ById(SyncAfter, t.id)[1].locked
                      = Max(t.locked, SyncDefaultLocked(LayoutCode(INNER_REALM_LAYOUT, t.id)))]_vars

\* the sync never unseals: the half of C27 that every init satisfies
C27_SyncNeverUnseals ==
    [][result'.op = "init" =>
         \A t \in TileSet(SyncBefore) :
             ById(SyncAfter, t.id) # <<>> => ById(SyncAfter, t.id)[1].locked >= t.locked]_vars

\* init has run on a table of as many tiles as the new layout has cells, and
\* a tile whose cell the layout now seals is still open
C27_RepaintedCellLeftOpen ==
    /\ isReady
    /\ result.op = "init"
    /\ \E t \in TileSet(dbTiles) :
         /\ InLayout(INNER_REALM_LAYOUT, t.id)
         /\ t.locked = 0 /\ t.feature = "gate"
         /\ SyncDefaultLocked(LayoutCode(INNER_REALM_LAYOUT, t.id)) = 1

\* C28: in every init the sync leaves level and progress of each tile it finds
\* inside the layout bounds as they were, and every tile it adds is a grid cell
\* that had no tile, at level 0 with progress 0.
C28_SyncKeepsProgress ==
    [][result'.op = "init" =>
         /\ \A t \in TileSet(SyncBefore) :
                InLayout(INNER_REALM_LAYOUT, t.id) =>
                    /\ ById(SyncAfter, t.id) # <<>>
                    /\ ById(SyncAfter, t.id)[1].level = t.level
                    /\ ById(SyncAfter, t.id)[1].progress = t.progress
         /\ \A t \in TileSet(SyncAfter) :
                ById(SyncBefore, t.id) = <<>> =>
                    /\ InLayout(INNER_REALM_LAYOUT, t.id)
                    /\ t.level = 0 /\ t.progress = 0]_vars

\* the grid has grown by a column around a tile that had been invested in
C28_GrownAroundInvestedTile ==
    /\ isReady
    /\ result.op = "init"
    /\ layoutVer = 2
    /\ Len(dbTiles) = 6
    /\ \E t \in TileSet(dbTiles) : t.id = <<0, 1>> /\ t.progress = 60
    /\ \E t \in TileSet(dbTiles) : t.id = <<0, 2>> /\ t.level = 0 /\ t.progress = 0

\* the player table the sync of the next initDb leaves
SyncPlayerAfter == syncPlayer(PlayerBeforeSync(dbPlayer), SyncBefore, INNER_REALM_LAYOUT)

\* C29: in every init, a second run of the sync on the tables its first run
\* left changes neither the tiles nor the player row.
C29_SyncIdempotent ==
    [][result'.op = "init" =>
         /\ syncTiles(SyncAfter, INNER_REALM_LAYOUT) = SyncAfter
         /\ syncPlayer(SyncPlayerAfter, SyncAfter, INNER_REALM_LAYOUT) = SyncPlayerAfter]_vars

\* the grid went from 2x2 to 3x2 and back to 2x2: the sync has added, sealed,
\* repainted and deleted tiles, and the cell that was void in between is a
\* sealed gate now
C29_SyncedThroughThreeLayouts ==
    /\ isReady
    /\ result.op = "init"
    /\ layoutVer = 4
    /\ Len(dbTiles) = 4
    /\ \E t \in TileSet(dbTiles) : t.feature = "gate" /\ t.locked = 1

\* a row of the tiles table that lies outside the grid of the layout
OutOfBounds(layout, t) == t.row >= LayoutRows(layout) \/ t.col >= LayoutCols(layout)

\* C30: after every init no persisted tile lies outside the layout bounds and
\* the stored target names no tile that does not exist: the sync inside init
\* deletes the tiles outside the bounds and clears a target that named one.
C30_NoTileOutsideBounds ==
    [][result'.op = "init" =>
         /\ \A t \in TileSet(dbTiles') : ~OutOfBounds(INNER_REALM_LAYOUT, t)
         /\ \A t \in TileSet(SyncAfter) : ~OutOfBounds(INNER_REALM_LAYOUT, t)
         /\ dbPlayer'[1].targetTileId # NullId =>
                ById(dbTiles', dbPlayer'[1].targetTileId) # <<>>]_vars

\* the part of C30 that every init satisfies: a sync that does not take the
\* early return leaves no tile outside the bounds, and no sync leaves a target
\* that names a missing tile
C30_ReconcilingSyncDeletes ==
    [][result'.op = "init" =>
         /\ ~SyncInSync(SyncBefore, INNER_REALM_LAYOUT) =>
                \A t \in TileSet(dbTiles') : ~OutOfBounds(INNER_REALM_LAYOUT, t)
         /\ SyncPlayerAfter[1].targetTileId # NullId =>
                ById(SyncAfter, SyncPlayerAfter[1].targetTileId) # <<>>
         /\ dbPlayer'[1].targetTileId # NullId =>
                ById(dbTiles', dbPlayer'[1].targetTileId) # <<>>]_vars

\* init has run under the 3x2 layout and tiles of the third column are still there
C30_ThirdColumnKept ==
    /\ isReady
    /\ result.op = "init"
    /\ LayoutCols(INNER_REALM_LAYOUT) = 2
    /\ \E t \in TileSet(dbTiles) : t.col = 2
    /\ \E t \in TileSet(tiles) : OutOfBounds(INNER_REALM_LAYOUT, t)

\* a tile list holds a conquered tile at its level-1 threshold and a frontier tile
StartedWorld(ts) ==
    /\ \E t \in TileSet(ts) :
          /\ t.level >= 1 /\ ~isHardLocked(t)
          /\ t.progress = totalRequiredForLevel(1, t.region)
          /\ t.id = pickStartAnchorId([i \in 1..Len(ts) |->
                                         [ts[i] EXCEPT !.level = 0, !.progress = 0]])
    /\ \E t \in TileSet(ts) : isFrontier(t, ts) /\ canInvest(t, ts)

C32_InitAgainChangesNothing ==
    [][(result'.op = "init" /\ isReady) =>
          /\ dbTiles' = dbTiles
          /\ dbPlayer' = dbPlayer
          /\ tiles' = tiles
          /\ xp' = xp /\ pools' = pools /\ targetTileId' = targetTileId]_vars

\* a relaunch has written a level the tile's progress does not reach
C32_RelaunchRaisedLevel ==
    /\ isReady
    /\ result.op = "init"
    /\ \E t \in TileSet(dbTiles) :
          /\ t.level = 1
          /\ t.progress < totalRequiredForLevel(1, t.region)
          /\ computeLevelFromTotalMinutes(t.progress, t.region) = 0

\* col*2 + |row - floor(rows/2)|, rows being the highest row of the list plus one
AnchorScore(t, ts) ==
    LET mid == (MaxRow(ts) + 1) \div 2
    IN t.col * 2 + (IF t.row >= mid THEN t.row - mid ELSE mid - t.row)

\* the positions of the list whose tile is not hard-locked, of mountains_doubt only
\* if there is such a tile
AnchorPool(ts) ==
    LET open == {i \in 1..Len(ts) : ~isHardLocked(ts[i])}
        mountains == {i \in open : ts[i].region = "mountains_doubt"}
    IN IF mountains # {} THEN mountains ELSE open

\* the first position of the pool with the least score
AnchorOf(ts) ==
    CHOOSE i \in AnchorPool(ts) :
        \A j \in AnchorPool(ts) :
            \/ AnchorScore(ts[i], ts) < AnchorScore(ts[j], ts)
            \/ (AnchorScore(ts[i], ts) = AnchorScore(ts[j], ts) /\ i <= j)

\* C33: pickStartAnchorId answers for every tile list: null for an empty list
\* and for a list of hard-locked tiles only; else the tile at (3,3) if it is of
\* mountains_doubt and not hard-locked; else the first tile of least
\* col*2 + |row - floor(rows/2)| among the mountains_doubt tiles that are not
\* hard-locked, or among all tiles that are not hard-locked if there is none;
\* the tile it names is never hard-locked.
C33_StartAnchorChoice ==
    result.op = "pickStartAnchorId" =>
        /\ (result.id = NullId) <=> (\A t \in TileSet(tiles) : isHardLocked(t))
        /\ result.id # NullId =>
              /\ ById(tiles, result.id) # <<>>
              /\ ~isHardLocked(ById(tiles, result.id)[1])
              /\ IF \E t \in TileSet(tiles) :
                       t.id = <<3, 3>> /\ t.region = "mountains_doubt" /\ ~isHardLocked(t)
                 THEN result.id = <<3, 3>>
                 ELSE result.id = tiles[AnchorOf(tiles)].id

\* two mountains_doubt tiles tie and the later cell comes first in the list
C33_TieGoesToFirstInList ==
    /\ result.op = "pickStartAnchorId"
    /\ Len(tiles) = 4
    /\ tiles[1].id = <<2, 1>> /\ tiles[2].id = <<3, 0>> /\ tiles[3].id = <<1, 0>>
    /\ isHardLocked(tiles[4]) /\ tiles[4].id = <<3, 3>>
    /\ tiles[1].region = "river_despair"
    /\ tiles[2].region = "mountains_doubt" /\ ~isHardLocked(tiles[2])
    /\ tiles[3].region = "mountains_doubt" /\ ~isHardLocked(tiles[3])
    /\ AnchorScore(tiles[2], tiles) = AnchorScore(tiles[3], tiles)
    /\ result.id = <<3, 0>>

\* the explanation the precedence asks for
ReasonByPrecedence(t, ts) ==
    IF HardLockedTile(t)
    THEN IF VoidTile(t) THEN "void"
         ELSE IF t.region = "great_depths" THEN "sealed_great_depths"
         ELSE "sealed"
    ELSE IF t.level >= 1 THEN "conquered"
    ELSE IF NextToConquered(t, ts) THEN "frontier"
    ELSE "not_reachable"

\* C34: for every tile of every list investabilityReason gives a hard-lock
\* reason if the tile is hard-locked (void before sealed great_depths before
\* sealed), whatever its level and neighbours, and only otherwise conquered,
\* then frontier, then not reachable; a spend that canInvest rejects returns
\* the reason of its tile.
C34_ReasonPrecedence ==
    /\ result.op = "pickStartAnchorId" =>
          \A t \in TileSet(tiles) : result.reasons[t.id] = ReasonByPrecedence(t, tiles)
    /\ \A k \in 1..Len(PickCells) :
          (ById(tiles, PickCells[k]) # <<>> /\ pools.craft >= 60
             /\ ~Investable(ById(tiles, PickCells[k])[1], tiles)) =>
                SpendRefusal(PickCells[k], "craft", 60)
                  = ReasonByPrecedence(ById(tiles, PickCells[k])[1], tiles)
    /\ (result.op = "spend" /\ ~result.ok
           /\ result.reason \in {"void", "sealed_great_depths", "sealed", "not_reachable"}) =>
          \E t \in TileSet(tiles) :
              ~Investable(t, tiles) /\ result.reason = ReasonByPrecedence(t, tiles)

\* a spend on a sealed mountains_doubt tile at level 1, next to a conquered
\* tile, was refused as sealed
C34_SealedConqueredTileRefused ==
    /\ result.op = "spend" /\ ~result.ok /\ result.reason = "sealed"
    /\ Len(tiles) = 2
    /\ tiles[1].id = <<3, 0>> /\ tiles[1].locked = 1 /\ tiles[1].level = 1
    /\ tiles[1].region = "mountains_doubt"
    /\ tiles[2].id = <<2, 1>> /\ ConqueredTile(tiles[2])

\* C35: reset-player leaves a player row with xp 0, every pool 0 and no target;
\* reset-tiles leaves every tile at level 0 with progress 0 and with the id,
\* position, region, feature and locked flag it had.
C35_ResetsZeroPlayerAndTiles ==
    [][/\ result'.op = "resetPlayer" =>
             /\ dbPlayer'[1].xp = 0
             /\ \A k \in ResourceKeys : dbPlayer'[1][k] = 0
             /\ dbPlayer'[1].targetTileId = NullId
       /\ result'.op = "resetTiles" =>
             /\ Len(dbTiles') = Len(dbTiles)
             /\ \A i \in 1..Len(dbTiles) :
                    dbTiles'[i] = [dbTiles[i] EXCEPT !.level = 0, !.progress = 0]]_vars

\* the part of C35 that every reset satisfies: xp and target of the player,
\* level and progress of the tiles
C35_ResetsXpTargetAndTiles ==
    [][/\ result'.op = "resetPlayer" =>
             dbPlayer'[1].xp = 0 /\ dbPlayer'[1].targetTileId = NullId
       /\ result'.op = "resetTiles" =>
             /\ Len(dbTiles') = Len(dbTiles)
             /\ \A i \in 1..Len(dbTiles) :
                    dbTiles'[i] = [dbTiles[i] EXCEPT !.level = 0, !.progress = 0]]_vars

\* the player was reset and init has loaded the row: xp is gone, a pool is not
C35_PoolSurvivedReset ==
    /\ isReady
    /\ result.op = "init"
    /\ xp = 0 /\ dbPlayer[1].xp = 0
    /\ Len(dbSessions) = 1
    /\ \E k \in SpendableResources : pools[k] > 0 /\ dbPlayer[1][k] = pools[k]

\* the store holds what the tables hold
StoreMatchesTables ==
    /\ tiles = dbTiles
    /\ xp = dbPlayer[1].xp
    /\ \A k \in ResourceKeys : pools[k] = dbPlayer[1][k]
    /\ targetTileId = dbPlayer[1].targetTileId

\* C36: once every addSession, spendResourceOnTile and setTargetTile call that
\* was issued without awaiting the others has run to completion, xp, the pools,
\* targetTileId and the tiles in memory equal the player row and the tiles rows.
C36_CallsAreAllOrNothing ==
    (isReady /\ pend = <<>>) => StoreMatchesTables

\* setTargetTile wrote the target inside addSession's transaction and kept it in
\* memory; addSession's ROLLBACK took the write back
C36_TargetKeptRollbackLost ==
    /\ isReady
    /\ pend = <<>>
    /\ result.op = "addSession"
    /\ result.threw
    /\ targetTileId = <<0, 1>>
    /\ dbPlayer[1].targetTileId = NullId

\* the spendable pools of a store or of a player row, together
SpendablePools(p) == p.craft + p.lore + p.vigor + p.clarity

\* every spendable gain the recorded sessions brought
SpendableGains(ss) ==
    SumGain(ss, "craft") + SumGain(ss, "lore") + SumGain(ss, "vigor") + SumGain(ss, "clarity")

\* C37: no resource is spent twice: once overlapping spendResourceOnTile and
\* addSession calls have run to completion, the pools hold the recorded gains
\* minus the minutes the spends that returned ok have added to tiles, in the
\* tables and in memory alike.
C37_NoResourceSpentTwice ==
    (isReady /\ pend = <<>>) =>
        /\ SpendablePools(dbPlayer[1]) = SpendableGains(dbSessions) - InvestedMinutes(dbTiles)
        /\ SpendablePools(pools) = SpendableGains(sessions) - InvestedMinutes(tiles)

\* one session earned 90 vigor; two spends of 90 that overlapped both returned
\* ok, and the tables hold 180 invested minutes
C37_SpentTwice ==
    /\ isReady
    /\ pend = <<>>
    /\ result.op = "spend"
    /\ result.ok
    /\ SpendableGains(dbSessions) = 90
    /\ dbPlayer[1].vigor = 0
    /\ InvestedMinutes(dbTiles) = 180

\* the conquered tiles of a list
ConqueredOf(ts) == {t \in TileSet(ts) : ConqueredTile(t)}

\* the tiles of `among` that a chain of king moves over `among` links to `seen`
RECURSIVE LinkedTo(_, _)
LinkedTo(seen, among) ==
    LET more == {t \in among \ seen : \E u \in seen : KingMove(t, u)}
    IN IF more = {} THEN seen ELSE LinkedTo(seen \cup more, among)

\* every conquered tile is linked to every other by a chain of conquered tiles
ConqueredConnected(ts) ==
    \A t \in ConqueredOf(ts) : LinkedTo({t}, ConqueredOf(ts)) = ConqueredOf(ts)

\* C38: in a world that was seeded with a single conquered start tile, after any
\* sequence of spendResourceOnTile calls the conquered tiles are connected under
\* 8-adjacency, in memory and in the table: every conquered tile is linked to
\* the start tile by a chain of conquered tiles.
C38_ConqueredStaysConnected ==
    isReady => ConqueredConnected(tiles) /\ ConqueredConnected(dbTiles)

\* the third column is conquered: only the gate between them links it to the
\* start tile
C38_ChainOfThree ==
    /\ isReady
    /\ result.op = "spend"
    /\ result.ok
    /\ ById(tiles, <<0, 2>>) # <<>>
    /\ ConqueredTile(ById(tiles, <<0, 2>>)[1])
    /\ ConqueredTile(ById(tiles, <<0, 1>>)[1])
    /\ ConqueredTile(ById(tiles, <<0, 0>>)[1])

\* some gate of the list has been conquered
GateOpened(ts) == \E t \in TileSet(ts) : t.feature = "gate" /\ t.level >= 1

\* a tile of the great depths that is still sealed
SealedDepths(ts) == {t \in TileSet(ts) : t.region = "great_depths" /\ t.locked = 1}

\* C39: once the store's init has completed, and after any later spends, a gate
\* at level 1 or more means that no great_depths tile has locked = 1, in the
\* tiles table and in memory, also after a layout sync.
C39_OpenGateUnsealsDepths ==
    isReady =>
        /\ GateOpened(tiles) => SealedDepths(tiles) = {}
        /\ GateOpened(dbTiles) => SealedDepths(dbTiles) = {}

\* a later build is installed, its sync has sealed the depths again behind the
\* conquered gate, and init has unsealed them
C39_UnsealedAgainAfterSync ==
    /\ isReady
    /\ layoutVer >= 2
    /\ result.op = "init"
    /\ \E i \in 1..Len(result.stmts) : result.stmts[i] = "UPDATE locked"
    /\ GateOpened(dbTiles)
    /\ \E t \in TileSet(dbTiles) : t.region = "great_depths" /\ t.locked = 0
    /\ \E t \in TileSet(tiles) : t.region = "great_depths" /\ t.locked = 0

\* the step is an addSession call, refused, thrown or returned
SessionCalled == result'.op = "addSession"

\* C40: addSession never changes a tile's level, progress or locked flag nor the
\* target, in memory or in the tables, whatever tile is pinned; when it succeeds
\* it reports no unlocked tile; and no recorded session row references a tile.
C40_SessionsInvestNothing ==
    /\ [][SessionCalled =>
            /\ tiles' = tiles
            /\ dbTiles' = dbTiles
            /\ targetTileId' = targetTileId
            /\ dbPlayer'[1].targetTileId = dbPlayer[1].targetTileId
            /\ result'.ok => ~result'.unlockedNow]_vars
    /\ [](\A i \in 1..Len(dbSessions) : dbSessions[i].tileId = NullId)

\* the gate is the pinned target and a session has just been logged
C40_LoggedWithTargetPinned ==
    /\ isReady
    /\ result.op = "addSession"
    /\ result.ok
    /\ targetTileId = <<0, 1>>
    /\ dbPlayer[1].targetTileId = <<0, 1>>
    /\ Len(dbSessions) >= 1
    /\ dbSessions[1].tileId = NullId

====
